---------------------------- MODULE Spec2Model ----------------------------
(***************************************************************************)
(* Model of the research assistant: the model registry resolver            *)
(* (models/model_loader.py: initialize_models), the interactive           *)
(* session of main.py (initialize_all_ai_models, run_research_qa_loop,     *)
(* the __main__ guard), and the request of the xAI chat model              *)
(* (models/custom_models.py: CustomGrokChatModel._generate).               *)
(*                                                                         *)
(* Python values: None is NoneVal, a str is a TLA+ string, an f-string is  *)
(* the tuple of its pieces, a dict is a function on its keys, a list is a  *)
(* sequence.  A console line is a sequence of one-character strings so     *)
(* that str.strip and int() are computed, not assumed.                     *)
(***************************************************************************)
EXTENDS Integers, Sequences, FiniteSets, TLC

\* How many subjects (providers, model definitions) are faulty in one run.
MaxFaulty == 1

NoneVal == "<None>"

\* Python truthiness of an Optional[str].
Truthy(x) == x # NoneVal /\ x # ""

\* dict.get(k): None when the key is absent.
DictGet(d, k) == IF k \in DOMAIN d THEN d[k] ELSE NoneVal

\* d[k] = v on a dict.
DictSet(d, k, v) == (k :> v) @@ d

EmptyDict == <<>>

\* Iteration order of MODEL_DEFINITIONS.items() (insertion order of the literal).
ProviderOrder == <<"openai", "groq", "google", "anthropic", "xai">>

Providers == {ProviderOrder[i] : i \in DOMAIN ProviderOrder}

\* The MODEL_DEFINITIONS literal; grok is the value of the name
\* CustomGrokChatModel when the literal is evaluated.
MODEL_DEFINITIONS_TABLE(grok) ==
    "openai" :> <<
        [key |-> "openai/gpt-4.1-mini",
         model_name |-> "gpt-4.1-mini",
         class |-> "ChatOpenAI", args |-> [temperature |-> "0.7"], model_id_key |-> "model_name"],
        [key |-> "openai/gpt-4.5-preview-2025-02-27",
         model_name |-> "gpt-4.5-preview-2025-02-27",
         class |-> "ChatOpenAI", args |-> [temperature |-> "0.7"], model_id_key |-> "model_name"],
        [key |-> "openai/gpt-4.5-preview",
         model_name |-> "gpt-4.5-preview",
         class |-> "ChatOpenAI", args |-> [temperature |-> "0.7"], model_id_key |-> "model_name"],
        [key |-> "openai/gpt-4.1-nano-2025-04-14",
         model_name |-> "gpt-4.1-nano-2025-04-14",
         class |-> "ChatOpenAI", args |-> [temperature |-> "0.7"], model_id_key |-> "model_name"] >>
    @@ "groq" :> <<
        [key |-> "groq/meta-llama/llama-guard-4-12b",
         model_name |-> "meta-llama/llama-guard-4-12b",
         class |-> "ChatGroq", args |-> [temperature |-> "0.7"], model_id_key |-> "model_name"],
        [key |-> "groq/meta-llama/llama-4-scout-17b-16e-instruct",
         model_name |-> "meta-llama/llama-4-scout-17b-16e-instruct",
         class |-> "ChatGroq", args |-> [temperature |-> "0.7"], model_id_key |-> "model_name"],
        [key |-> "groq/deepseek-r1-distill-llama-70b",
         model_name |-> "deepseek-r1-distill-llama-70b",
         class |-> "ChatGroq", args |-> [temperature |-> "0.7"], model_id_key |-> "model_name"],
        [key |-> "groq/llama-4-maverick-17b",
         model_name |-> "meta-llama/llama-4-maverick-17b-128e-instruct",
         class |-> "ChatGroq", args |-> [temperature |-> "0.7"], model_id_key |-> "model_name"],
        [key |-> "groq/llama-3.3-70b-versatile",
         model_name |-> "llama-3.3-70b-versatile",
         class |-> "ChatGroq", args |-> [temperature |-> "0.7"], model_id_key |-> "model_name"],
        [key |-> "groq/qwen-qwq-32b",
         model_name |-> "qwen-qwq-32b",
         class |-> "ChatGroq", args |-> [temperature |-> "0.7"], model_id_key |-> "model_name"] >>
    @@ "google" :> <<
        [key |-> "google/gemini-2.5-flash-preview-04-17",
         model_name |-> "gemini-2.5-flash-preview-04-17",
         class |-> "ChatGoogleGenerativeAI", args |-> [temperature |-> "0.7"], model_id_key |-> "model"],
        [key |-> "google/gemini-2.5-pro-preview-03-25",
         model_name |-> "gemini-2.5-pro-preview-03-25",
         class |-> "ChatGoogleGenerativeAI", args |-> [temperature |-> "0.7"], model_id_key |-> "model"],
        [key |-> "google/gemma-3-12b-it",
         model_name |-> "gemma-3-12b-it",
         class |-> "ChatGoogleGenerativeAI", args |-> [temperature |-> "0.7"], model_id_key |-> "model"],
        [key |-> "google/gemini-2.0-flash-exp",
         model_name |-> "gemini-2.0-flash-exp",
         class |-> "ChatGoogleGenerativeAI", args |-> [temperature |-> "0.7"], model_id_key |-> "model"] >>
    @@ "anthropic" :> <<
        [key |-> "anthropic/claude-3-5-sonnet",
         model_name |-> "claude-3-5-sonnet-20241022",
         class |-> "ChatAnthropic", args |-> [temperature |-> "0.7"], model_id_key |-> "model_name"],
        [key |-> "anthropic/claude-3.7-sonnet",
         model_name |-> "claude-3-7-sonnet-20250219",
         class |-> "ChatAnthropic", args |-> [temperature |-> "0.7"], model_id_key |-> "model_name"],
        [key |-> "anthropic/Claude Sonnet 4",
         model_name |-> "claude-sonnet-4-20250514",
         class |-> "ChatAnthropic", args |-> [temperature |-> "0.7"], model_id_key |-> "model_name"],
        [key |-> "anthropic/Claude Opus 4",
         model_name |-> "claude-opus-4-20250514",
         class |-> "ChatAnthropic", args |-> [temperature |-> "0.7"], model_id_key |-> "model_name"] >>
    @@ "xai" :> <<
        [key |-> "xAI/Grok 3 Beta",
         model_name |-> "grok-3-beta",
         class |-> grok, args |-> [temperature |-> "0.7"], model_id_key |-> "model"],
        [key |-> "xAI/grok-3 mini beta",
         model_name |-> "grok-3-mini-beta",
         class |-> grok, args |-> [temperature |-> "0.7"], model_id_key |-> "model"],
        [key |-> "xAI/Grok 3 Mini Beta (Fast Model)",
         model_name |-> "grok-3-mini-fast-beta",
         class |-> grok, args |-> [temperature |-> "0.7"], model_id_key |-> "model"] >>

\* str.capitalize() on the provider names.
Capitalize(provider) ==
    CASE provider = "openai" -> "Openai"
      [] provider = "groq" -> "Groq"
      [] provider = "google" -> "Google"
      [] provider = "anthropic" -> "Anthropic"
      [] provider = "xai" -> "Xai"

\* config/settings.py: API_KEY_ARG_NAMES as shipped.
SETTINGS_API_KEY_ARG_NAMES ==
    [openai |-> "openai_api_key", groq |-> "groq_api_key",
     google |-> "google_api_key", anthropic |-> "anthropic_api_key",
     xai |-> "api_key"]

\* The value os.getenv yields for a provider whose variable is set.
SecretOf(provider) ==
    CASE provider = "openai" -> "sk-openai"
      [] provider = "groq" -> "sk-groq"
      [] provider = "google" -> "sk-google"
      [] provider = "anthropic" -> "sk-anthropic"
      [] provider = "xai" -> "sk-xai"

\* The code points of each registry key (for sorted() and str.split).
KeyCodes(k) ==
    CASE k = "openai/gpt-4.1-mini" ->
        <<111, 112, 101, 110, 97, 105, 47, 103, 112, 116, 45, 52, 46, 49, 45, 109, 105, 110, 105>>
      [] k = "openai/gpt-4.5-preview-2025-02-27" ->
        <<111, 112, 101, 110, 97, 105, 47, 103, 112, 116, 45, 52, 46, 53, 45, 112, 114, 101, 118, 105, 101, 119, 45, 50, 48, 50, 53, 45, 48, 50, 45, 50, 55>>
      [] k = "openai/gpt-4.5-preview" ->
        <<111, 112, 101, 110, 97, 105, 47, 103, 112, 116, 45, 52, 46, 53, 45, 112, 114, 101, 118, 105, 101, 119>>
      [] k = "openai/gpt-4.1-nano-2025-04-14" ->
        <<111, 112, 101, 110, 97, 105, 47, 103, 112, 116, 45, 52, 46, 49, 45, 110, 97, 110, 111, 45, 50, 48, 50, 53, 45, 48, 52, 45, 49, 52>>
      [] k = "groq/meta-llama/llama-guard-4-12b" ->
        <<103, 114, 111, 113, 47, 109, 101, 116, 97, 45, 108, 108, 97, 109, 97, 47, 108, 108, 97, 109, 97, 45, 103, 117, 97, 114, 100, 45, 52, 45, 49, 50, 98>>
      [] k = "groq/meta-llama/llama-4-scout-17b-16e-instruct" ->
        <<103, 114, 111, 113, 47, 109, 101, 116, 97, 45, 108, 108, 97, 109, 97, 47, 108, 108, 97, 109, 97, 45, 52, 45, 115, 99, 111, 117, 116, 45, 49, 55, 98, 45, 49, 54, 101, 45, 105, 110, 115, 116, 114, 117, 99, 116>>
      [] k = "groq/deepseek-r1-distill-llama-70b" ->
        <<103, 114, 111, 113, 47, 100, 101, 101, 112, 115, 101, 101, 107, 45, 114, 49, 45, 100, 105, 115, 116, 105, 108, 108, 45, 108, 108, 97, 109, 97, 45, 55, 48, 98>>
      [] k = "groq/llama-4-maverick-17b" ->
        <<103, 114, 111, 113, 47, 108, 108, 97, 109, 97, 45, 52, 45, 109, 97, 118, 101, 114, 105, 99, 107, 45, 49, 55, 98>>
      [] k = "groq/llama-3.3-70b-versatile" ->
        <<103, 114, 111, 113, 47, 108, 108, 97, 109, 97, 45, 51, 46, 51, 45, 55, 48, 98, 45, 118, 101, 114, 115, 97, 116, 105, 108, 101>>
      [] k = "groq/qwen-qwq-32b" ->
        <<103, 114, 111, 113, 47, 113, 119, 101, 110, 45, 113, 119, 113, 45, 51, 50, 98>>
      [] k = "google/gemini-2.5-flash-preview-04-17" ->
        <<103, 111, 111, 103, 108, 101, 47, 103, 101, 109, 105, 110, 105, 45, 50, 46, 53, 45, 102, 108, 97, 115, 104, 45, 112, 114, 101, 118, 105, 101, 119, 45, 48, 52, 45, 49, 55>>
      [] k = "google/gemini-2.5-pro-preview-03-25" ->
        <<103, 111, 111, 103, 108, 101, 47, 103, 101, 109, 105, 110, 105, 45, 50, 46, 53, 45, 112, 114, 111, 45, 112, 114, 101, 118, 105, 101, 119, 45, 48, 51, 45, 50, 53>>
      [] k = "google/gemma-3-12b-it" ->
        <<103, 111, 111, 103, 108, 101, 47, 103, 101, 109, 109, 97, 45, 51, 45, 49, 50, 98, 45, 105, 116>>
      [] k = "google/gemini-2.0-flash-exp" ->
        <<103, 111, 111, 103, 108, 101, 47, 103, 101, 109, 105, 110, 105, 45, 50, 46, 48, 45, 102, 108, 97, 115, 104, 45, 101, 120, 112>>
      [] k = "anthropic/claude-3-5-sonnet" ->
        <<97, 110, 116, 104, 114, 111, 112, 105, 99, 47, 99, 108, 97, 117, 100, 101, 45, 51, 45, 53, 45, 115, 111, 110, 110, 101, 116>>
      [] k = "anthropic/claude-3.7-sonnet" ->
        <<97, 110, 116, 104, 114, 111, 112, 105, 99, 47, 99, 108, 97, 117, 100, 101, 45, 51, 46, 55, 45, 115, 111, 110, 110, 101, 116>>
      [] k = "anthropic/Claude Sonnet 4" ->
        <<97, 110, 116, 104, 114, 111, 112, 105, 99, 47, 67, 108, 97, 117, 100, 101, 32, 83, 111, 110, 110, 101, 116, 32, 52>>
      [] k = "anthropic/Claude Opus 4" ->
        <<97, 110, 116, 104, 114, 111, 112, 105, 99, 47, 67, 108, 97, 117, 100, 101, 32, 79, 112, 117, 115, 32, 52>>
      [] k = "xAI/Grok 3 Beta" ->
        <<120, 65, 73, 47, 71, 114, 111, 107, 32, 51, 32, 66, 101, 116, 97>>
      [] k = "xAI/grok-3 mini beta" ->
        <<120, 65, 73, 47, 103, 114, 111, 107, 45, 51, 32, 109, 105, 110, 105, 32, 98, 101, 116, 97>>
      [] k = "xAI/Grok 3 Mini Beta (Fast Model)" ->
        <<120, 65, 73, 47, 71, 114, 111, 107, 32, 51, 32, 77, 105, 110, 105, 32, 66, 101, 116, 97, 32, 40, 70, 97, 115, 116, 32, 77, 111, 100, 101, 108, 41>>

VARIABLES
    \* --- configuration and environment, fixed for one run ---
    API_KEYS,              \* config.settings.API_KEYS: provider -> os.getenv value
    API_KEY_ARG_NAMES,     \* config.settings.API_KEY_ARG_NAMES: provider -> keyword
    CustomGrokChatModel,   \* the imported class, or None when the import failed
    MODEL_DEFINITIONS,     \* the model table: provider -> list of definitions
    raising,               \* model identifiers whose constructor raises when called
    \* --- initialize_models ---
    pc,                    \* position in the program
    pi,                    \* index into MODEL_DEFINITIONS.items()
    mi,                    \* index into model_list
    initialized_models,    \* dict key -> instance
    initialization_errors, \* dict key -> message
    ctor_calls,            \* every constructor invocation, in order: class and kwargs
    \* --- main.py ---
    imports_fail,          \* whether one of the module-level imports raises
    init_errors,           \* run_research_qa_loop: second value of the initializer
    available_model_keys,  \* sorted(list(initialized_models.keys()))
    menu,                  \* the lines of the last model menu printed
    selected_key,
    choice,                \* the stripped line read at the model prompt
    agent_executor,        \* <<>> while unbound, else <<the executor>>
    chat_history,          \* <<>> while unbound, else <<the list>>
    question,
    summary_answer,
    user_action,           \* the stripped line read at the post-answer menu
    invocations,           \* how many times agent_executor.invoke was called
    last_invocation,       \* <<>> or <<the argument of the last invoke call>>
    stdout,                \* the notices printed on the ways out of the program
    exception,             \* <<>> or <<the exception leaving run_research_qa_loop>>
    exit_code,             \* <<>> while running, else <<the process exit status>>
    \* --- CustomGrokChatModel._generate ---
    messages,              \* the messages argument
    stop,                  \* the stop argument: <<>> for None, else <<the list>>
    payload,               \* <<>> or <<the JSON body of the request>>
    response,              \* <<>> or <<the response requests.post returned>>
    result,                \* <<>> or <<response.json()>>
    chat_result            \* <<>> or <<the ChatResult returned>>

envVars == <<API_KEYS, API_KEY_ARG_NAMES, CustomGrokChatModel, MODEL_DEFINITIONS, raising,
             imports_fail>>
grokVars == <<messages, stop, payload, response, result, chat_result>>
loaderVars == <<pi, mi, initialized_models, initialization_errors, ctor_calls>>
consoleVars == <<choice, question, user_action>>
sessionVars == <<available_model_keys, menu, selected_key, agent_executor, chat_history,
                 summary_answer, invocations, last_invocation>>
mainVars == <<init_errors, consoleVars, sessionVars, stdout, exception, exit_code>>
vars == <<envVars, grokVars, pc, loaderVars, mainVars>>

-----------------------------------------------------------------------------
\* The static shape of the table.

AllDefs == UNION {{MODEL_DEFINITIONS_TABLE("CustomGrokChatModel")[p][i] :
                      i \in DOMAIN MODEL_DEFINITIONS_TABLE("CustomGrokChatModel")[p]} :
                  p \in Providers}

RegistryKeys == {d.key : d \in AllDefs}

\* Definitions of the table in memory.
DefsOf(p) == {MODEL_DEFINITIONS[p][i] : i \in DOMAIN MODEL_DEFINITIONS[p]}

TableKeys == UNION {{d.key : d \in DefsOf(p)} : p \in Providers}

ProviderOfKey(k) == CHOOSE p \in Providers : \E d \in DefsOf(p) : d.key = k

DefOfKey(k) == CHOOSE d \in DefsOf(ProviderOfKey(k)) : d.key = k

-----------------------------------------------------------------------------
\* What may be wrong in one run.  A fault is <<kind, subject>>; the subject is a
\* provider or the registry key of a model definition.

ProviderFaultKinds == {"cred_unset", "cred_empty", "arg_unset", "arg_empty"}

Consistent(F) ==
    \A p \in Providers :
        /\ ~(<<"cred_unset", p>> \in F /\ <<"cred_empty", p>> \in F)
        /\ ~(<<"arg_unset", p>> \in F /\ <<"arg_empty", p>> \in F)

\* Every way one provider can be misconfigured.
ProviderBundles(p) ==
    {B \in SUBSET ((ProviderFaultKinds \X {p})
                     \cup (IF p = "xai" THEN {<<"grok_import_failed", "xai">>} ELSE {})) :
        B # {} /\ Consistent(B)}

\* Every way one model definition can be faulty.
ModelBundles(k) ==
    {{<<"ctor_raises", k>>}, {<<"class_none", k>>}, {<<"id_key_missing", k>>},
     {<<"class_none", k>>, <<"id_key_missing", k>>}}

Bundles ==
    UNION ({ProviderBundles(p) : p \in Providers}
              \cup {ModelBundles(k) : k \in RegistryKeys})

\* The faults of at most n faulty subjects.
RECURSIVE FaultSetsUpTo(_)
FaultSetsUpTo(n) ==
    IF n = 0 THEN {{}}
    ELSE LET prev == FaultSetsUpTo(n - 1)
         IN  prev \cup {F \cup B : F \in prev, B \in Bundles}

FaultSets == {F \in FaultSetsUpTo(MaxFaulty) : Consistent(F)}

\* os.getenv per provider.
EnvApiKeys(F) ==
    [p \in Providers |->
        IF <<"cred_unset", p>> \in F THEN NoneVal
        ELSE IF <<"cred_empty", p>> \in F THEN ""
        ELSE SecretOf(p)]

EnvArgNames(F) ==
    [p \in {q \in Providers : <<"arg_unset", q>> \notin F} |->
        IF <<"arg_empty", p>> \in F THEN "" ELSE SETTINGS_API_KEY_ARG_NAMES[p]]

EnvGrokClass(F) ==
    IF <<"grok_import_failed", "xai">> \in F THEN NoneVal ELSE "CustomGrokChatModel"

EnvTable(F) ==
    LET base == MODEL_DEFINITIONS_TABLE(EnvGrokClass(F))
    IN  [p \in Providers |->
            [i \in DOMAIN base[p] |->
                [base[p][i] EXCEPT
                    !.class = IF <<"class_none", base[p][i].key>> \in F
                              THEN NoneVal ELSE @,
                    !.model_id_key = IF <<"id_key_missing", base[p][i].key>> \in F
                                     THEN NoneVal ELSE @]]]

EnvRaising(F) == {d.model_name : d \in {e \in AllDefs : <<"ctor_raises", e.key>> \in F}}

EnvInit(F) ==
    /\ API_KEYS = EnvApiKeys(F)
    /\ API_KEY_ARG_NAMES = EnvArgNames(F)
    /\ CustomGrokChatModel = EnvGrokClass(F)
    /\ MODEL_DEFINITIONS = EnvTable(F)
    /\ raising = EnvRaising(F)
    /\ imports_fail = (<<"import_error", "main">> \in F)

-----------------------------------------------------------------------------
\* The constructors (external classes): a call records its arguments and
\* raises for the model identifiers in `raising`.

CtorModelId(kwargs) ==
    IF "model_name" \in DOMAIN kwargs THEN kwargs["model_name"] ELSE kwargs["model"]

CtorRaises(class, kwargs) == CtorModelId(kwargs) \in raising

\* str(e) of the exception a constructor raises.
CtorExcMessage(class, kwargs) == <<"cannot construct ", CtorModelId(kwargs)>>

Instance(class, kwargs) == [class |-> class, kwargs |-> kwargs]

-----------------------------------------------------------------------------
\* initialize_models

provider == ProviderOrder[pi]
model_list == MODEL_DEFINITIONS[provider]
api_key == DictGet(API_KEYS, provider)
api_key_arg_name == DictGet(API_KEY_ARG_NAMES, provider)
model_def == model_list[mi]

\* for model_def in model_list: initialization_errors[model_def["key"]] = msg
MarkGroupFailed(errors, list, msg) ==
    LET ks == {list[i].key : i \in DOMAIN list}
    IN  [k \in DOMAIN errors \cup ks |-> IF k \in ks THEN msg ELSE errors[k]]

NotConfiguredMsg(p) == <<"Provider '", p, "' not configured in API_KEY_ARG_NAMES.">>
GrokUnavailableMsg == <<"CustomGrokChatModel class not available (import failed).">>
KeyNotFoundMsg(p) == <<Capitalize(p), " API Key not found.">>
ClassMissingXaiMsg(k) ==
    <<"Class definition missing for ", k, " (CustomGrokChatModel likely failed to import).">>
ClassMissingMsg(k) == <<"Class definition missing for ", k, ".">>
IdKeyMissingMsg(k) ==
    <<"Configuration error: 'model_id_key' missing for ", k, " in MODEL_DEFINITIONS.">>
FailedToInitializeMsg(k, e) == <<"Failed to initialize ", k, ": ">> \o e

SkipGroup(msg) ==
    /\ initialization_errors' = MarkGroupFailed(initialization_errors, model_list, msg)
    /\ pi' = pi + 1
    /\ UNCHANGED <<pc, mi, initialized_models, ctor_calls, envVars, grokVars, mainVars>>

\* A resolver that looks at the credential before the argument name.
ProviderNotConfigured_AfterCredential ==
    /\ pc = "for_provider" /\ pi <= Len(ProviderOrder)
    /\ ~Truthy(api_key_arg_name)
    /\ SkipGroup(IF Truthy(api_key) THEN NotConfiguredMsg(provider)
                 ELSE KeyNotFoundMsg(provider))

\* lines 96-101
ProviderNotConfigured ==
    /\ pc = "for_provider" /\ pi <= Len(ProviderOrder)
    /\ ~Truthy(api_key_arg_name)
    /\ SkipGroup(NotConfiguredMsg(provider))

\* A resolver that looks at the xai credential before the xai class.
GrokUnavailable_AfterCredential ==
    /\ pc = "for_provider" /\ pi <= Len(ProviderOrder)
    /\ Truthy(api_key_arg_name)
    /\ provider = "xai" /\ CustomGrokChatModel = NoneVal
    /\ SkipGroup(IF Truthy(api_key) THEN GrokUnavailableMsg
                 ELSE KeyNotFoundMsg(provider))

\* lines 103-107
GrokUnavailable ==
    /\ pc = "for_provider" /\ pi <= Len(ProviderOrder)
    /\ Truthy(api_key_arg_name)
    /\ provider = "xai" /\ CustomGrokChatModel = NoneVal
    /\ SkipGroup(GrokUnavailableMsg)

\* A resolver whose missing-credential branch lacks its `continue`.
KeyNotFound_FallsThrough ==
    /\ pc = "for_provider" /\ pi <= Len(ProviderOrder)
    /\ Truthy(api_key_arg_name)
    /\ ~(provider = "xai" /\ CustomGrokChatModel = NoneVal)
    /\ ~Truthy(api_key)
    /\ initialization_errors' =
           MarkGroupFailed(initialization_errors, model_list, KeyNotFoundMsg(provider))
    /\ pc' = "for_model" /\ mi' = 1
    /\ UNCHANGED <<pi, initialized_models, ctor_calls, envVars, grokVars, mainVars>>

\* lines 109-114
KeyNotFound ==
    /\ pc = "for_provider" /\ pi <= Len(ProviderOrder)
    /\ Truthy(api_key_arg_name)
    /\ ~(provider = "xai" /\ CustomGrokChatModel = NoneVal)
    /\ ~Truthy(api_key)
    /\ SkipGroup(KeyNotFoundMsg(provider))

\* After one iteration of the inner loop: the next model, or the next provider.
NextModel ==
    IF mi < Len(model_list)
    THEN mi' = mi + 1 /\ UNCHANGED <<pc, pi>>
    ELSE mi' = 0 /\ pi' = pi + 1 /\ pc' = "for_provider"

\* lines 116-117: the provider passed every check; enter its model loop.
EnterGroup ==
    /\ pc = "for_provider" /\ pi <= Len(ProviderOrder)
    /\ Truthy(api_key_arg_name)
    /\ ~(provider = "xai" /\ CustomGrokChatModel = NoneVal)
    /\ Truthy(api_key)
    /\ IF Len(model_list) = 0
       THEN pi' = pi + 1 /\ UNCHANGED <<pc, mi>>
       ELSE pc' = "for_model" /\ mi' = 1 /\ UNCHANGED pi
    /\ UNCHANGED <<initialized_models, initialization_errors, ctor_calls, envVars, grokVars, mainVars>>

\* A resolver that leaves the provider's loop at a definition without class.
ClassMissing_LeavesGroup ==
    /\ pc = "for_model"
    /\ model_def.class = NoneVal
    /\ initialization_errors' =
           DictSet(initialization_errors, model_def.key,
                   IF provider = "xai" THEN ClassMissingXaiMsg(model_def.key)
                   ELSE ClassMissingMsg(model_def.key))
    /\ mi' = 0 /\ pi' = pi + 1 /\ pc' = "for_provider"
    /\ UNCHANGED <<initialized_models, ctor_calls, envVars, grokVars, mainVars>>

\* lines 123-132
ClassMissing ==
    /\ pc = "for_model"
    /\ model_def.class = NoneVal
    /\ initialization_errors' =
           DictSet(initialization_errors, model_def.key,
                   IF provider = "xai" THEN ClassMissingXaiMsg(model_def.key)
                   ELSE ClassMissingMsg(model_def.key))
    /\ NextModel
    /\ UNCHANGED <<initialized_models, ctor_calls, envVars, grokVars, mainVars>>

\* lines 134-138
IdKeyMissing ==
    /\ pc = "for_model"
    /\ model_def.class # NoneVal
    /\ ~Truthy(model_def.model_id_key)
    /\ initialization_errors' =
           DictSet(initialization_errors, model_def.key, IdKeyMissingMsg(model_def.key))
    /\ NextModel
    /\ UNCHANGED <<initialized_models, ctor_calls, envVars, grokVars, mainVars>>

\* A resolver that passes the credential as `api_key` to every constructor.
model_args_from_def_FixedName == DictSet(model_def.args, "api_key", api_key)

\* lines 140-145: {id param: identifier} overlaid with args.copy() + api key.
model_args_from_def == DictSet(model_def.args, api_key_arg_name, api_key)
constructor_kwargs == (model_def.model_id_key :> model_def.model_name)
final_constructor_args == model_args_from_def @@ constructor_kwargs

\* A resolver that adds the credential to the definition's own args (no copy).
ConstructOk_WritesTable ==
    /\ pc = "for_model"
    /\ model_def.class # NoneVal
    /\ Truthy(model_def.model_id_key)
    /\ ~CtorRaises(model_def.class, final_constructor_args)
    /\ ctor_calls' = Append(ctor_calls,
                            [class |-> model_def.class, kwargs |-> final_constructor_args])
    /\ initialized_models' =
           DictSet(initialized_models, model_def.key,
                   Instance(model_def.class, final_constructor_args))
    /\ MODEL_DEFINITIONS' =
           [MODEL_DEFINITIONS EXCEPT ![provider][mi].args = model_args_from_def]
    /\ NextModel
    /\ UNCHANGED <<initialization_errors, API_KEYS, API_KEY_ARG_NAMES, CustomGrokChatModel,
                   raising, imports_fail, grokVars, mainVars>>

\* lines 140-148: the constructor returns.
ConstructOk ==
    /\ pc = "for_model"
    /\ model_def.class # NoneVal
    /\ Truthy(model_def.model_id_key)
    /\ ~CtorRaises(model_def.class, final_constructor_args)
    /\ ctor_calls' = Append(ctor_calls,
                            [class |-> model_def.class, kwargs |-> final_constructor_args])
    /\ initialized_models' =
           DictSet(initialized_models, model_def.key,
                   Instance(model_def.class, final_constructor_args))
    /\ NextModel
    /\ UNCHANGED <<initialization_errors, envVars, grokVars, mainVars>>

\* A resolver without the try/except: the exception ends the whole call.
ConstructRaises_Aborts ==
    /\ pc = "for_model"
    /\ model_def.class # NoneVal
    /\ Truthy(model_def.model_id_key)
    /\ CtorRaises(model_def.class, final_constructor_args)
    /\ ctor_calls' = Append(ctor_calls,
                            [class |-> model_def.class, kwargs |-> final_constructor_args])
    /\ initialization_errors' =
           DictSet(initialization_errors, model_def.key,
                   FailedToInitializeMsg(model_def.key,
                       CtorExcMessage(model_def.class, final_constructor_args)))
    /\ pc' = "loader_returned"
    /\ UNCHANGED <<pi, mi, initialized_models, envVars, grokVars, mainVars>>

\* A resolver that stores the failed model under its key as well.
ConstructRaises_AlsoStores ==
    /\ pc = "for_model"
    /\ model_def.class # NoneVal
    /\ Truthy(model_def.model_id_key)
    /\ CtorRaises(model_def.class, final_constructor_args)
    /\ ctor_calls' = Append(ctor_calls,
                            [class |-> model_def.class, kwargs |-> final_constructor_args])
    /\ initialization_errors' =
           DictSet(initialization_errors, model_def.key,
                   FailedToInitializeMsg(model_def.key,
                       CtorExcMessage(model_def.class, final_constructor_args)))
    /\ initialized_models' = DictSet(initialized_models, model_def.key, NoneVal)
    /\ NextModel
    /\ UNCHANGED <<envVars, grokVars, mainVars>>

\* lines 140-153: the constructor raises.
ConstructRaises ==
    /\ pc = "for_model"
    /\ model_def.class # NoneVal
    /\ Truthy(model_def.model_id_key)
    /\ CtorRaises(model_def.class, final_constructor_args)
    /\ ctor_calls' = Append(ctor_calls,
                            [class |-> model_def.class, kwargs |-> final_constructor_args])
    /\ initialization_errors' =
           DictSet(initialization_errors, model_def.key,
                   FailedToInitializeMsg(model_def.key,
                       CtorExcMessage(model_def.class, final_constructor_args)))
    /\ NextModel
    /\ UNCHANGED <<initialized_models, envVars, grokVars, mainVars>>

\* lines 155-163
LoaderReturn ==
    /\ pc = "for_provider" /\ pi = Len(ProviderOrder) + 1
    /\ pc' = "loader_returned"
    /\ UNCHANGED <<loaderVars, envVars, grokVars, mainVars>>

\* initialize_models() called on its own: lines 87-88 done, the loop about to start.
\* main.py has not run (or has not got anywhere yet).
MainIdle ==
    /\ init_errors = EmptyDict
    /\ available_model_keys = <<>>
    /\ menu = <<>>
    /\ selected_key = NoneVal
    /\ choice = <<>> /\ question = <<>> /\ user_action = <<>>
    /\ agent_executor = <<>>
    /\ chat_history = <<>>
    /\ summary_answer = <<>>
    /\ invocations = 0
    /\ last_invocation = <<>>
    /\ stdout = {}
    /\ exception = <<>>
    /\ exit_code = <<>>

\* CustomGrokChatModel._generate is not running.
GrokIdle ==
    /\ messages = <<>> /\ stop = <<>>
    /\ payload = <<>> /\ response = <<>> /\ result = <<>> /\ chat_result = <<>>

LoaderIdle ==
    /\ pi = 1 /\ mi = 0
    /\ initialized_models = EmptyDict
    /\ initialization_errors = EmptyDict
    /\ ctor_calls = <<>>

LoaderInit ==
    /\ \E F \in FaultSets : EnvInit(F)
    /\ pc = "for_provider"
    /\ LoaderIdle
    /\ MainIdle
    /\ GrokIdle

LoaderNext ==
    \/ ProviderNotConfigured
    \/ GrokUnavailable
    \/ KeyNotFound
    \/ EnterGroup
    \/ ClassMissing
    \/ IdKeyMissing
    \/ ConstructOk
    \/ ConstructRaises
    \/ LoaderReturn

LoaderSpec == LoaderInit /\ [][LoaderNext]_vars


-----------------------------------------------------------------------------
\* Text: console lines are sequences of one-character strings.

Whitespace == {" ", "\t", "\n", "\r"}

RECURSIVE LStrip(_)
LStrip(s) == IF s # <<>> /\ Head(s) \in Whitespace THEN LStrip(Tail(s)) ELSE s

RECURSIVE RStrip(_)
RStrip(s) ==
    IF s # <<>> /\ s[Len(s)] \in Whitespace THEN RStrip(SubSeq(s, 1, Len(s) - 1)) ELSE s

\* str.strip()
Strip(s) == RStrip(LStrip(s))

DigitChars == <<"0", "1", "2", "3", "4", "5", "6", "7", "8", "9">>

IsDigit(c) == \E i \in DOMAIN DigitChars : DigitChars[i] = c

DigitValue(c) == (CHOOSE i \in DOMAIN DigitChars : DigitChars[i] = c) - 1

\* Digits, single underscores allowed between two digits.
IsDigitString(s) ==
    /\ s # <<>>
    /\ IsDigit(s[1]) /\ IsDigit(s[Len(s)])
    /\ \A i \in DOMAIN s : IsDigit(s[i]) \/ s[i] = "_"
    /\ \A i \in 1..(Len(s) - 1) : ~(s[i] = "_" /\ s[i + 1] = "_")

RECURSIVE DigitsValue(_)
DigitsValue(s) ==
    IF s = <<>> THEN 0
    ELSE IF s[Len(s)] = "_" THEN DigitsValue(SubSeq(s, 1, Len(s) - 1))
    ELSE 10 * DigitsValue(SubSeq(s, 1, Len(s) - 1)) + DigitValue(s[Len(s)])

\* int(s): whether it raises ValueError, and its value when it does not.
IntBody(s) == IF s # <<>> /\ s[1] \in {"+", "-"} THEN Tail(s) ELSE s

IntParses(s) == IsDigitString(IntBody(Strip(s)))

IntValue(s) ==
    LET t == Strip(s)
    IN  IF t[1] = "-" THEN 0 - DigitsValue(IntBody(t)) ELSE DigitsValue(IntBody(t))

\* str(n) for n >= 0.
RECURSIVE Decimal(_)
Decimal(n) ==
    IF n < 10 THEN <<DigitChars[n + 1]>>
    ELSE Decimal(n \div 10) \o <<DigitChars[(n % 10) + 1]>>

\* "\n".join(lines)
RECURSIVE JoinLines(_)
JoinLines(lines) ==
    IF lines = <<>> THEN <<>>
    ELSE IF Len(lines) = 1 THEN lines[1]
    ELSE lines[1] \o <<"\n">> \o JoinLines(Tail(lines))

-----------------------------------------------------------------------------
\* Registry keys as text: ordering and the provider prefix.

\* s < t on sequences of code points (str comparison).
SeqLess(s, t) ==
    \E i \in 1..(Len(s) + 1) :
        /\ \A j \in 1..(i - 1) : j <= Len(t) /\ s[j] = t[j]
        /\ \/ i = Len(s) + 1 /\ Len(t) >= i
           \/ i <= Len(s) /\ i <= Len(t) /\ s[i] < t[i]

KeyLess(a, b) == SeqLess(KeyCodes(a), KeyCodes(b))

\* sorted(list(d.keys()))
RECURSIVE SortedKeys(_)
SortedKeys(S) ==
    IF S = {} THEN <<>>
    ELSE LET least == CHOOSE k \in S : \A j \in S \ {k} : KeyLess(k, j)
         IN  <<least>> \o SortedKeys(S \ {least})

\* key.split('/')[0]
RECURSIVE UpToSlash(_)
UpToSlash(codes) ==
    IF codes = <<>> \/ Head(codes) = 47 THEN <<>>
    ELSE <<Head(codes)>> \o UpToSlash(Tail(codes))

\* str.upper() on ASCII code points.
Upper(codes) == [i \in DOMAIN codes |->
                    IF codes[i] >= 97 /\ codes[i] <= 122 THEN codes[i] - 32 ELSE codes[i]]

\* _display_model_menu: the lines it prints.
RECURSIVE DisplayFrom(_, _, _)
DisplayFrom(model_keys, i, current_provider_group) ==
    IF i > Len(model_keys) THEN <<>>
    ELSE LET provider_name == UpToSlash(KeyCodes(model_keys[i]))
             item == [line |-> "item", number |-> i, key |-> model_keys[i]]
         IN  IF <<provider_name>> # current_provider_group
             THEN (IF current_provider_group # <<>> THEN <<[line |-> "---"]>> ELSE <<>>)
                      \o <<[line |-> "header", name |-> Upper(provider_name)], item>>
                      \o DisplayFrom(model_keys, i + 1, <<provider_name>>)
             ELSE <<item>> \o DisplayFrom(model_keys, i + 1, current_provider_group)

DisplayModelMenu(model_keys) == DisplayFrom(model_keys, 1, <<>>)

-----------------------------------------------------------------------------
\* utils/input_helpers.py: get_multiline_input

UpperLetters == <<"A", "B", "C", "D", "E", "F", "G", "H", "I", "J", "K", "L", "M",
                  "N", "O", "P", "Q", "R", "S", "T", "U", "V", "W", "X", "Y", "Z">>
LowerLetters == <<"a", "b", "c", "d", "e", "f", "g", "h", "i", "j", "k", "l", "m",
                  "n", "o", "p", "q", "r", "s", "t", "u", "v", "w", "x", "y", "z">>

\* str.lower()
Lower(s) ==
    [i \in DOMAIN s |->
        IF \E j \in DOMAIN UpperLetters : UpperLetters[j] = s[i]
        THEN LowerLetters[CHOOSE j \in DOMAIN UpperLetters : UpperLetters[j] = s[i]]
        ELSE s[i]]

Sentinel == <<"d", "o", "n", "e", "!", "!", "!">>

\* The loop of get_multiline_input over what the console supplies; the console
\* is at end of file after the last line of `console`.
RECURSIVE CollectLines(_)
CollectLines(console) ==
    IF console = <<>> THEN <<>>
    ELSE IF Lower(Strip(Head(console))) = Sentinel THEN <<>>
    ELSE <<Head(console)>> \o CollectLines(Tail(console))

get_multiline_input(console) == Strip(JoinLines(CollectLines(console)))

-----------------------------------------------------------------------------
\* What the user may type, and what the agent may answer.

\* How many questions reach the agent in one run.
MaxInvocations == 2

\* At the model prompt, with n models on offer.
SelectLines(n) ==
    {Decimal(k) : k \in 0..(n + 1)}
        \cup {<<" ", "1", " ">>, <<"+", "2">>, <<"-", "1">>, <<"-", "0">>,
              <<"1", ".", "0">>, <<>>}

\* At the question prompt: the lines typed, up to end of file.
QuestionConsoles ==
    {<< Sentinel >>,
     << <<" ">>, <<"\t">>, Sentinel >>,
     << <<"h", "i">>, Sentinel >>,
     << <<" ", "a">>, <<"b", " ">> >>,
     << <<"h", "i">>, <<" ", "D", "o", "n", "e", "!", "!", "!", " ">>, <<"x">> >>}

\* At the post-answer menu.
ActionLines ==
    {<<"1">>, <<"2">>, <<"3">>, <<"4">>, <<" ", "3", " ">>, <<"0">>, <<"1", "2">>}

\* response["output"] of an invocation that answers.
AgentOutputs == {<<"an answer">>}

\* str(e) of an exception the agent raises.
AgentFailures == {<<"provider unreachable">>}

HumanMessage(content) == [type |-> "human", content |-> content]

\* A Python str held where a message is expected: it has neither type nor content.
PyStr(value) == [str |-> value]

SystemExit(code) == [type |-> "SystemExit", arg |-> <<code>>]
Raised(type, message) == [type |-> type, arg |-> message]

-----------------------------------------------------------------------------
\* main.py

\* lines 8-39: a module-level import raises; sys.exit(1) outside any handler.
ImportsFail ==
    /\ pc = "import" /\ imports_fail
    /\ stdout' = stdout \cup {"FATAL ERROR: Could not import"}
    /\ exit_code' = <<1>>
    /\ pc' = "terminated"
    /\ UNCHANGED <<envVars, grokVars, loaderVars, init_errors, consoleVars, sessionVars, exception>>

\* lines 8-39, 250-252: the imports succeed and the guard calls run_research_qa_loop.
ImportsOk ==
    /\ pc = "import" /\ ~imports_fail
    /\ pc' = "call_init"
    /\ UNCHANGED <<envVars, grokVars, loaderVars, mainVars>>

\* model_loader.py line 82: def initialize_models() names no parameter.
initialize_models_parameters == {}

\* main.py lines 90-93: the keywords of the call.
initialize_models_call_keywords == {"api_keys", "api_key_arg_names"}

TypeErrorMessage ==
    <<"initialize_models() got an unexpected keyword argument '", "api_keys", "'">>

\* lines 81-100, called from line 107.  A call whose keywords the function
\* does not name raises TypeError before the body runs; the wrapper's handler
\* turns any exception into ({}, {"model_loader.py_execution": message}).
InitializeAllAiModels ==
    /\ pc = "call_init"
    /\ IF initialize_models_call_keywords \subseteq initialize_models_parameters
       THEN /\ pc' = "for_provider"
            /\ UNCHANGED <<initialized_models, init_errors>>
       ELSE /\ initialized_models' = EmptyDict
            /\ init_errors' =
                   ("model_loader.py_execution" :>
                       <<"An unexpected error occurred while trying to load models: ">>
                           \o TypeErrorMessage)
            /\ pc' = "check_models"
    /\ UNCHANGED <<envVars, grokVars, pi, mi, initialization_errors, ctor_calls, consoleVars,
                   sessionVars, stdout, exception, exit_code>>

\* lines 109-118 with a fatal check that lets an empty registry through.
FatalNoModels_Continues ==
    /\ pc = "check_models"
    /\ initialized_models = EmptyDict
    /\ available_model_keys' = SortedKeys(DOMAIN initialized_models)
    /\ menu' = DisplayModelMenu(available_model_keys')
    /\ UNCHANGED stdout
    /\ pc' = "select"
    /\ UNCHANGED <<envVars, grokVars, loaderVars, init_errors, consoleVars, selected_key,
                   agent_executor, chat_history, summary_answer, invocations,
                   last_invocation, exception, exit_code>>

\* lines 109-118: no model: report and sys.exit(1).
FatalNoModels ==
    /\ pc = "check_models"
    /\ initialized_models = EmptyDict
    /\ stdout' = stdout \cup {"--- FATAL ERROR ---"}
    /\ exception' = <<SystemExit(1)>>
    /\ pc' = "unwind"
    /\ UNCHANGED <<envVars, grokVars, loaderVars, init_errors, consoleVars, sessionVars, exit_code>>

\* lines 120-157: the sorted keys, the first listing, then the outer loop's
\* first turn: selected_key = None, the menu, and the prompt.
StartSession ==
    /\ pc = "check_models"
    /\ initialized_models # EmptyDict
    /\ available_model_keys' = SortedKeys(DOMAIN initialized_models)
    /\ menu' = DisplayModelMenu(available_model_keys')
    /\ selected_key' = NoneVal
    /\ UNCHANGED stdout
    /\ pc' = "select"
    /\ UNCHANGED <<envVars, grokVars, loaderVars, init_errors, consoleVars, agent_executor,
                   chat_history, summary_answer, invocations, last_invocation,
                   exception, exit_code>>

\* A prompt that treats 0 like any other number outside the menu.
SelectExit_TreatedAsInvalid ==
    /\ pc = "select"
    /\ \E line \in {<<"0">>, <<"-", "0">>} : choice' = Strip(line)
    /\ menu' = menu
    /\ UNCHANGED <<envVars, grokVars, loaderVars, init_errors, question, user_action,
                   available_model_keys, agent_executor, chat_history, summary_answer,
                   invocations, last_invocation, exit_code, pc, selected_key, exception,
                   stdout>>

selectFrame == <<envVars, grokVars, loaderVars, init_errors, question, user_action,
                 available_model_keys, agent_executor, chat_history, summary_answer,
                 invocations, last_invocation, exit_code>>

\* lines 157-162: "0" (any spelling of zero): sys.exit(0).
SelectExit ==
    /\ pc = "select"
    /\ \E line \in SelectLines(Len(available_model_keys)) :
           /\ choice' = Strip(line)
           /\ IntParses(choice') /\ IntValue(choice') = 0
    /\ UNCHANGED stdout
    /\ exception' = <<SystemExit(0)>>
    /\ pc' = "unwind"
    /\ UNCHANGED <<selectFrame, menu, selected_key>>

\* A selection that takes the entry after the one with the number typed.
SelectModel_OffByOne ==
    /\ pc = "select"
    /\ \E line \in SelectLines(Len(available_model_keys)) :
           /\ choice' = Strip(line)
           /\ IntParses(choice')
           /\ 1 <= IntValue(choice') /\ IntValue(choice') < Len(available_model_keys)
           /\ selected_key' = available_model_keys[IntValue(choice') + 1]
    /\ pc' = "create_agent"
    /\ UNCHANGED <<selectFrame, menu, stdout, exception>>

\* lines 157-166: a number of the menu.
SelectModel ==
    /\ pc = "select"
    /\ \E line \in SelectLines(Len(available_model_keys)) :
           /\ choice' = Strip(line)
           /\ IntParses(choice')
           /\ 1 <= IntValue(choice') /\ IntValue(choice') <= Len(available_model_keys)
           /\ selected_key' = available_model_keys[IntValue(choice') - 1 + 1]
    /\ pc' = "create_agent"
    /\ UNCHANGED <<selectFrame, menu, stdout, exception>>

\* lines 157-168, 152-155: a number outside the menu; the menu again.
SelectOutOfRange ==
    /\ pc = "select"
    /\ \E line \in SelectLines(Len(available_model_keys)) :
           /\ choice' = Strip(line)
           /\ IntParses(choice')
           /\ IntValue(choice') # 0
           /\ ~(1 <= IntValue(choice') /\ IntValue(choice') <= Len(available_model_keys))
    /\ UNCHANGED stdout
    /\ menu' = DisplayModelMenu(available_model_keys)
    /\ UNCHANGED <<selectFrame, pc, selected_key, exception>>

\* lines 157-170, 152-155: int() raises ValueError; the menu again.
SelectNotANumber ==
    /\ pc = "select"
    /\ \E line \in SelectLines(Len(available_model_keys)) :
           /\ choice' = Strip(line)
           /\ ~IntParses(choice')
    /\ UNCHANGED stdout
    /\ menu' = DisplayModelMenu(available_model_keys)
    /\ UNCHANGED <<selectFrame, pc, selected_key, exception>>

\* line 157: input() at end of file raises EOFError, which no handler of
\* run_research_qa_loop catches.
SelectEOF ==
    /\ pc = "select"
    /\ exception' = <<Raised("EOFError", <<"EOF when reading a line">>)>>
    /\ pc' = "unwind"
    /\ UNCHANGED <<selectFrame, choice, menu, selected_key, stdout>>

\* A session that starts with the history of the session before it.
CreateAgent_KeepsHistory ==
    /\ pc = "create_agent"
    /\ agent_executor' = <<[llm |-> initialized_models[selected_key]]>>
    /\ chat_history' = IF chat_history = <<>> THEN << <<>> >> ELSE chat_history
    /\ pc' = "ask"
    /\ UNCHANGED <<envVars, grokVars, loaderVars, init_errors, consoleVars, available_model_keys,
                   menu, selected_key, summary_answer, invocations, last_invocation,
                   exception, exit_code, stdout>>

\* lines 173-181: the agent and its executor are built, the history starts empty.
CreateAgent ==
    /\ pc = "create_agent"
    /\ agent_executor' = <<[llm |-> initialized_models[selected_key]]>>
    /\ chat_history' = << <<>> >>
    /\ UNCHANGED stdout
    /\ pc' = "ask"
    /\ UNCHANGED <<envVars, grokVars, loaderVars, init_errors, consoleVars, available_model_keys,
                   menu, selected_key, summary_answer, invocations, last_invocation,
                   exception, exit_code>>

\* lines 175-177: create_tool_calling_agent or AgentExecutor raises (library
\* code); nothing in run_research_qa_loop catches it.
CreateAgentRaises ==
    /\ pc = "create_agent"
    /\ exception' = <<Raised("Exception", <<"agent construction failed">>)>>
    /\ pc' = "unwind"
    /\ UNCHANGED <<envVars, grokVars, loaderVars, init_errors, consoleVars, sessionVars, stdout,
                   exit_code>>

\* A prompt that sends an empty question to the agent.
AskEmpty_Invokes ==
    /\ pc = "ask"
    /\ \E console \in QuestionConsoles :
           /\ question' = get_multiline_input(console)
           /\ Strip(question') = <<>>
    /\ pc' = "invoke"
    /\ UNCHANGED <<envVars, grokVars, loaderVars, init_errors, choice, user_action, sessionVars,
                   stdout, exception, exit_code>>

\* lines 187-192: an empty question.
AskEmpty ==
    /\ pc = "ask"
    /\ \E console \in QuestionConsoles :
           /\ question' = get_multiline_input(console)
           /\ Strip(question') = <<>>
    /\ UNCHANGED stdout
    /\ UNCHANGED <<envVars, grokVars, loaderVars, init_errors, pc, choice, user_action, sessionVars,
                   exception, exit_code>>

\* lines 187-194: a question.
AskQuestion ==
    /\ pc = "ask"
    /\ invocations < MaxInvocations
    /\ \E console \in QuestionConsoles :
           /\ question' = get_multiline_input(console)
           /\ Strip(question') # <<>>
    /\ pc' = "invoke"
    /\ UNCHANGED <<envVars, grokVars, loaderVars, init_errors, choice, user_action, sessionVars,
                   stdout, exception, exit_code>>

invokeFrame == <<envVars, grokVars, loaderVars, init_errors, consoleVars, available_model_keys,
                 menu, selected_key, agent_executor, stdout, exception, exit_code>>

Invoked ==
    /\ invocations' = invocations + 1
    /\ last_invocation' = <<[input |-> question, chat_history |-> chat_history[1]]>>
    /\ pc' = "post_menu"

\* An answer recorded before its question.
InvokeAnswers_AnswerFirst ==
    /\ pc = "invoke"
    /\ Invoked
    /\ \E output \in AgentOutputs :
           /\ summary_answer' = output
           /\ chat_history' =
                  <<chat_history[1] \o <<PyStr(output), HumanMessage(question)>> >>
    /\ UNCHANGED invokeFrame

\* lines 195-202, 206-208: the agent answers.
InvokeAnswers ==
    /\ pc = "invoke"
    /\ Invoked
    /\ \E output \in AgentOutputs :
           /\ summary_answer' = output
           /\ chat_history' =
                  <<chat_history[1] \o <<HumanMessage(question), PyStr(output)>> >>
    /\ UNCHANGED invokeFrame

\* lines 195-208: the response has no "output": line 200 takes the default,
\* then response["output"] on line 202 raises KeyError, handled on line 203.
InvokeWithoutOutput ==
    /\ pc = "invoke"
    /\ Invoked
    /\ summary_answer' = <<"An error occurred while running the agent: ", "'output'">>
    /\ UNCHANGED <<invokeFrame, chat_history>>

\* An invocation whose exception is not handled where it is raised.
InvokeRaises_Propagates ==
    /\ pc = "invoke"
    /\ invocations' = invocations + 1
    /\ last_invocation' = <<[input |-> question, chat_history |-> chat_history[1]]>>
    /\ \E e \in AgentFailures : exception' = <<Raised("Exception", e)>>
    /\ pc' = "unwind"
    /\ UNCHANGED <<envVars, grokVars, loaderVars, init_errors, consoleVars, available_model_keys,
                   menu, selected_key, agent_executor, stdout, exit_code,
                   chat_history, summary_answer>>

\* lines 195-208: the invocation raises.
InvokeRaises ==
    /\ pc = "invoke"
    /\ Invoked
    /\ \E e \in AgentFailures :
           summary_answer' = <<"An error occurred while running the agent: ">> \o e
    /\ UNCHANGED <<invokeFrame, chat_history>>

menuFrame == <<envVars, grokVars, loaderVars, init_errors, choice, question, available_model_keys,
               agent_executor, summary_answer, invocations, last_invocation, exit_code>>

\* lines 221-224: follow-up.
PostMenuContinue ==
    /\ pc = "post_menu"
    /\ \E line \in ActionLines : user_action' = Strip(line) /\ user_action' = <<"1">>
    /\ pc' = "ask"
    /\ UNCHANGED <<menuFrame, menu, selected_key, chat_history, stdout, exception>>

\* A new topic that keeps the history.
PostMenuNewTopic_KeepsHistory ==
    /\ pc = "post_menu"
    /\ \E line \in ActionLines : user_action' = Strip(line) /\ user_action' = <<"2">>
    /\ pc' = "ask"
    /\ UNCHANGED <<menuFrame, menu, selected_key, chat_history, stdout, exception>>

\* lines 225-229: new topic.
PostMenuNewTopic ==
    /\ pc = "post_menu"
    /\ \E line \in ActionLines : user_action' = Strip(line) /\ user_action' = <<"2">>
    /\ chat_history' = << <<>> >>
    /\ UNCHANGED stdout
    /\ pc' = "ask"
    /\ UNCHANGED <<menuFrame, menu, selected_key, exception>>

\* A session that takes the model just used off the list when changing model.
PostMenuChangeModel_DropsUsedModel ==
    /\ pc = "post_menu"
    /\ \E line \in ActionLines : user_action' = Strip(line) /\ user_action' = <<"3">>
    /\ selected_key' = NoneVal
    /\ available_model_keys' = SelectSeq(available_model_keys, LAMBDA k : k # selected_key)
    /\ menu' = DisplayModelMenu(available_model_keys')
    /\ UNCHANGED stdout
    /\ pc' = "select"
    /\ UNCHANGED <<envVars, grokVars, loaderVars, init_errors, choice, question,
                   agent_executor, summary_answer, invocations, last_invocation, exit_code,
                   chat_history, exception>>

\* lines 230-234, 241-242, 148-157: change model: back to the outer loop.
PostMenuChangeModel ==
    /\ pc = "post_menu"
    /\ \E line \in ActionLines : user_action' = Strip(line) /\ user_action' = <<"3">>
    /\ selected_key' = NoneVal
    /\ menu' = DisplayModelMenu(available_model_keys)
    /\ UNCHANGED stdout
    /\ pc' = "select"
    /\ UNCHANGED <<menuFrame, chat_history, exception>>

\* lines 235-237: exit.
PostMenuExit ==
    /\ pc = "post_menu"
    /\ \E line \in ActionLines : user_action' = Strip(line) /\ user_action' = <<"4">>
    /\ UNCHANGED stdout
    /\ exception' = <<SystemExit(0)>>
    /\ pc' = "unwind"
    /\ UNCHANGED <<menuFrame, menu, selected_key, chat_history>>

\* A menu that takes any unknown input for a follow-up.
PostMenuInvalid_ActsAsContinue ==
    /\ pc = "post_menu"
    /\ \E line \in ActionLines :
           /\ user_action' = Strip(line)
           /\ user_action' \notin {<<"1">>, <<"2">>, <<"3">>, <<"4">>}
    /\ pc' = "ask"
    /\ UNCHANGED <<menuFrame, menu, selected_key, chat_history, stdout, exception>>

\* lines 238-239: anything else.
PostMenuInvalid ==
    /\ pc = "post_menu"
    /\ \E line \in ActionLines :
           /\ user_action' = Strip(line)
           /\ user_action' \notin {<<"1">>, <<"2">>, <<"3">>, <<"4">>}
    /\ UNCHANGED stdout
    /\ UNCHANGED <<menuFrame, pc, menu, selected_key, chat_history, exception>>

\* line 221: input() at end of file.
PostMenuEOF ==
    /\ pc = "post_menu"
    /\ exception' = <<Raised("EOFError", <<"EOF when reading a line">>)>>
    /\ pc' = "unwind"
    /\ UNCHANGED <<menuFrame, user_action, menu, selected_key, chat_history, stdout>>

guardFrame == <<envVars, grokVars, loaderVars, init_errors, consoleVars, sessionVars, exception>>

\* lines 250-260: SystemExit is caught by the guard; the script then ends
\* normally, whatever code sys.exit was given.
GuardSystemExit ==
    /\ pc = "unwind"
    /\ exception[1].type = "SystemExit"
    /\ stdout' = stdout \cup {"Program terminated.", "Research Q&A tool finished."}
    /\ exit_code' = <<0>>
    /\ pc' = "terminated"
    /\ UNCHANGED guardFrame

\* lines 250-260: any other exception is caught and reported.
GuardException ==
    /\ pc = "unwind"
    /\ exception[1].type # "SystemExit"
    /\ stdout' = stdout \cup {"--- UNHANDLED EXCEPTION IN MAIN LOOP ---",
                              "Research Q&A tool finished."}
    /\ exit_code' = <<0>>
    /\ pc' = "terminated"
    /\ UNCHANGED guardFrame

-----------------------------------------------------------------------------
\* The program as shipped: python main.py.

Init ==
    /\ \E F \in FaultSets : \E b \in BOOLEAN :
           EnvInit(F \cup (IF b THEN {<<"import_error", "main">>} ELSE {}))
    /\ pc = "import"
    /\ LoaderIdle
    /\ MainIdle
    /\ GrokIdle

Next ==
    \/ ImportsFail
    \/ ImportsOk
    \/ InitializeAllAiModels
    \/ FatalNoModels
    \/ GuardSystemExit

Spec == Init /\ [][Next]_vars

-----------------------------------------------------------------------------
\* run_research_qa_loop from line 109 on, for a given result of line 107.

\* How many models the menu of a session run offers at most.
MaxMenu == 7

\* What initialize_models yields when exactly the providers of P have a
\* credential and nothing else is wrong.
SessionModels(P) ==
    LET ds == UNION {DefsOf(p) : p \in P}
    IN  [k \in {d.key : d \in ds} |->
            LET d == DefOfKey(k)
                p == ProviderOfKey(k)
            IN  Instance(d.class,
                         DictSet(d.args, API_KEY_ARG_NAMES[p], API_KEYS[p])
                             @@ (d.model_id_key :> d.model_name))]

SessionErrors(P) ==
    LET ds == UNION {DefsOf(p) : p \in Providers \ P}
    IN  [k \in {d.key : d \in ds} |-> KeyNotFoundMsg(ProviderOfKey(k))]

SessionInit ==
    /\ \E P \in SUBSET Providers :
           /\ EnvInit({<<"cred_unset", p>> : p \in Providers \ P})
           /\ Cardinality(UNION {DefsOf(p) : p \in P}) <= MaxMenu
           /\ \/ /\ initialized_models = SessionModels(P)
                 /\ init_errors = SessionErrors(P)
              \/ /\ P = {}
                 /\ initialized_models = EmptyDict
                 /\ init_errors =
                        ("model_loader.py_execution" :>
                            <<"An unexpected error occurred while trying to load models: ">>
                                \o TypeErrorMessage)
    /\ pc = "check_models"
    /\ pi = 1 /\ mi = 0
    /\ initialization_errors = EmptyDict
    /\ ctor_calls = <<>>
    /\ available_model_keys = <<>>
    /\ menu = <<>>
    /\ selected_key = NoneVal
    /\ choice = <<>> /\ question = <<>> /\ user_action = <<>>
    /\ agent_executor = <<>>
    /\ chat_history = <<>>
    /\ summary_answer = <<>>
    /\ invocations = 0
    /\ last_invocation = <<>>
    /\ stdout = {}
    /\ exception = <<>>
    /\ exit_code = <<>>
    /\ GrokIdle

SessionNext ==
    \/ FatalNoModels
    \/ StartSession
    \/ SelectExit
    \/ SelectModel
    \/ SelectOutOfRange
    \/ SelectNotANumber
    \/ SelectEOF
    \/ CreateAgent
    \/ CreateAgentRaises
    \/ AskEmpty
    \/ AskQuestion
    \/ InvokeAnswers
    \/ InvokeWithoutOutput
    \/ InvokeRaises
    \/ PostMenuContinue
    \/ PostMenuNewTopic
    \/ PostMenuChangeModel
    \/ PostMenuExit
    \/ PostMenuInvalid
    \/ PostMenuEOF
    \/ GuardSystemExit
    \/ GuardException

SessionSpec == SessionInit /\ [][SessionNext]_vars

-----------------------------------------------------------------------------
\* Properties of initialize_models (checked under LoaderSpec).

Returned == pc = "loader_returned"
Successes == DOMAIN initialized_models
Failures == DOMAIN initialization_errors

CredentialPresent(p) == Truthy(API_KEYS[p])
ArgNamePresent(p) == p \in DOMAIN API_KEY_ARG_NAMES /\ Truthy(API_KEY_ARG_NAMES[p])

\* The constructor invocations made for definition d.
CallsFor(d) == {i \in DOMAIN ctor_calls : CtorModelId(ctor_calls[i].kwargs) = d.model_name}

OnlyFailed(d) == d.key \in Failures /\ d.key \notin Successes

\* d can be constructed: nothing of its provider or of d itself is missing.
Constructible(p, d) ==
    /\ CredentialPresent(p) /\ ArgNamePresent(p)
    /\ d.class # NoneVal /\ Truthy(d.model_id_key)

\* C1: after initialize_models returns, every registry key of the table is in
\* exactly one of the two returned maps, and the maps hold no other key.
C1_ExactlyOneOutcome ==
    Returned =>
        /\ \A k \in RegistryKeys : (k \in Successes) # (k \in Failures)
        /\ Successes \cup Failures = RegistryKeys

C1_Witness ==
    /\ Returned
    /\ Successes # {} /\ Failures # {}
    /\ raising # {}

\* C2: a model whose constructor raises lands in the failure map with the
\* exception message, and every other constructible model whose constructor
\* does not raise, of the same and of every other provider, is in the success
\* map and was constructed.
C2_Isolation ==
    Returned =>
        \A p \in Providers : \A d \in DefsOf(p) :
            (Constructible(p, d) /\ d.model_name \in raising) =>
                /\ OnlyFailed(d)
                /\ initialization_errors[d.key] =
                       <<"Failed to initialize ", d.key, ": ",
                         "cannot construct ", d.model_name>>
                /\ \A q \in Providers : \A e \in DefsOf(q) :
                       (Constructible(q, e) /\ e.model_name \notin raising) =>
                           /\ e.key \in Successes /\ e.key \notin Failures
                           /\ Cardinality(CallsFor(e)) = 1

C2_Witness ==
    /\ Returned
    /\ \E p \in Providers : \E i, j \in DOMAIN MODEL_DEFINITIONS[p] :
           /\ i < j
           /\ MODEL_DEFINITIONS[p][i].model_name \in raising
           /\ MODEL_DEFINITIONS[p][i].key \in Failures
           /\ MODEL_DEFINITIONS[p][j].key \in Successes
    /\ \E q \in Providers : \A e \in DefsOf(q) : e.key \in Successes

\* C3 as stated: every model of a provider without credential has the
\* "credential not found" reason.
C3_Original ==
    Returned =>
        \A p \in Providers : ~CredentialPresent(p) =>
            \A d \in DefsOf(p) :
                /\ OnlyFailed(d)
                /\ initialization_errors[d.key] = <<Capitalize(p), " API Key not found.">>
                /\ CallsFor(d) = {}

\* C3, amended: every model of a provider without credential is only in the
\* failure map and is never constructed; its reason is "credential not found"
\* when the provider has an argument name and (for xai) its class was imported.
C3_MissingCredential ==
    Returned =>
        \A p \in Providers : ~CredentialPresent(p) =>
            \A d \in DefsOf(p) :
                /\ OnlyFailed(d)
                /\ CallsFor(d) = {}
                /\ (ArgNamePresent(p) /\ ~(p = "xai" /\ CustomGrokChatModel = NoneVal)) =>
                       initialization_errors[d.key] = <<Capitalize(p), " API Key not found.">>

C3_Witness ==
    /\ Returned
    /\ \E p \in Providers :
           /\ API_KEYS[p] = "" /\ ArgNamePresent(p)
           /\ \A d \in DefsOf(p) : d.key \in Failures
    /\ Successes # {}

\* C4: every model of a provider without argument name is only in the failure
\* map with the "not configured" reason and is never constructed, whether or
\* not the provider's credential is present.
C4_NotConfigured ==
    Returned =>
        \A p \in Providers : ~ArgNamePresent(p) =>
            \A d \in DefsOf(p) :
                /\ OnlyFailed(d)
                /\ initialization_errors[d.key] =
                       <<"Provider '", p, "' not configured in API_KEY_ARG_NAMES.">>
                /\ CallsFor(d) = {}

C4_Witness ==
    /\ Returned
    /\ \E p \in Providers :
           /\ ~ArgNamePresent(p) /\ ~CredentialPresent(p)
           /\ \A d \in DefsOf(p) : d.key \in Failures

\* The keyword set C5 names, for definition d of provider p.
ExpectedKwargs(p, d) ==
    [n \in {d.model_id_key} \cup DOMAIN d.args \cup {API_KEY_ARG_NAMES[p]} |->
        IF n = d.model_id_key THEN d.model_name
        ELSE IF n = API_KEY_ARG_NAMES[p] THEN API_KEYS[p]
        ELSE d.args[n]]

ConstructedOnceAsExpected(p, d) ==
    /\ Cardinality(CallsFor(d)) = 1
    /\ \A i \in CallsFor(d) :
           ctor_calls[i] = [class |-> d.class, kwargs |-> ExpectedKwargs(p, d)]

\* C5 as stated: credential and argument name present suffice for the
\* constructor to be invoked exactly once with the keyword set.
C5_Original ==
    Returned =>
        \A p \in Providers : (CredentialPresent(p) /\ ArgNamePresent(p)) =>
            \A d \in DefsOf(p) : ConstructedOnceAsExpected(p, d)

\* C5, amended: for every model of a provider with credential and argument
\* name whose class and identifier-argument name are present, the constructor
\* is invoked exactly once, with exactly the keyword set.
C5_ConstructorKwargs ==
    Returned =>
        \A p \in Providers : \A d \in DefsOf(p) :
            Constructible(p, d) => ConstructedOnceAsExpected(p, d)

C5_Witness ==
    /\ Returned
    /\ \E p \in Providers : \E i, j \in DOMAIN MODEL_DEFINITIONS[p] :
           /\ i # j
           /\ Constructible(p, MODEL_DEFINITIONS[p][i])
           /\ Constructible(p, MODEL_DEFINITIONS[p][j])
           /\ ConstructedOnceAsExpected(p, MODEL_DEFINITIONS[p][i])
           /\ ConstructedOnceAsExpected(p, MODEL_DEFINITIONS[p][j])


-----------------------------------------------------------------------------
\* Properties of main.py.

\* The states of the session, as places in run_research_qa_loop.
SelectingModel == pc = "select"
AwaitingQuestion == pc \in {"create_agent", "ask"}
Answering == pc = "invoke"
PostAnswerMenu == pc = "post_menu"

Terminated == pc = "terminated"

\* C6: once the wrapper has returned, every model that has its credential, its
\* argument name and a constructor that does not raise is in the successes map
\* run_research_qa_loop receives.
C6_WrapperReturnsResolverOutcome ==
    pc = "check_models" =>
        \A p \in Providers : \A d \in DefsOf(p) :
            (Constructible(p, d) /\ d.model_name \notin raising) =>
                d.key \in DOMAIN initialized_models

\* C7: a run that ends on the zero-models fatal error ends with exit code 1.
C7_ZeroModelsExitCodeOne ==
    (Terminated /\ "--- FATAL ERROR ---" \in stdout) => exit_code = <<1>>

\* C8: with zero models initialized the program never reaches SelectingModel:
\* it shows no menu, reads no line, builds no agent, starts no history and
\* invokes nothing; its only step from the check is the fatal exit, and then
\* the end of the process.
C8_ZeroModelsNeverSelects ==
    /\ [](initialized_models = EmptyDict =>
            /\ pc \in {"check_models", "unwind", "terminated"}
            /\ ~SelectingModel /\ ~AwaitingQuestion /\ ~Answering /\ ~PostAnswerMenu
            /\ menu = <<>> /\ available_model_keys = <<>>
            /\ choice = <<>> /\ question = <<>> /\ user_action = <<>>
            /\ selected_key = NoneVal
            /\ agent_executor = <<>> /\ chat_history = <<>>
            /\ invocations = 0 /\ last_invocation = <<>>
            /\ (pc = "unwind" => exception = <<SystemExit(1)>>)
            /\ (pc = "terminated" => "--- FATAL ERROR ---" \in stdout /\ exit_code # <<>>))
    /\ [][(initialized_models = EmptyDict /\ pc = "check_models") => pc' = "unwind"]_vars
    /\ [][(initialized_models = EmptyDict /\ pc = "unwind") => pc' = "terminated"]_vars

C8_Witness ==
    /\ Terminated
    /\ initialized_models = EmptyDict
    /\ "--- FATAL ERROR ---" \in stdout
    /\ init_errors # EmptyDict

\* C9: whenever "0" is read in SelectingModel the program leaves through
\* sys.exit(0) at once and ends with exit code 0; the step builds no agent,
\* starts no history, invokes nothing and selects nothing, at startup as well
\* as after "change model".
C9_SelectZeroExits ==
    /\ [][(SelectingModel /\ choice' = <<"0">>) =>
            /\ pc' = "unwind" /\ exception' = <<SystemExit(0)>>
            /\ selected_key' = NoneVal
            /\ UNCHANGED <<agent_executor, chat_history, invocations, last_invocation>>]_vars
    /\ [][(pc = "unwind" /\ exception = <<SystemExit(0)>>) =>
            /\ pc' = "terminated" /\ exit_code' = <<0>>
            /\ UNCHANGED <<selected_key, agent_executor, chat_history, invocations,
                           last_invocation>>]_vars

\* "0" read after a change of model, a question having been answered before.
C9_Witness ==
    /\ Terminated
    /\ choice = <<"0">>
    /\ exit_code = <<0>>
    /\ invocations > 0
    /\ user_action = <<"3">>

\* A line was read at the model prompt in this step.
ReadAtModelPrompt ==
    /\ SelectingModel
    /\ ~(pc' = "unwind" /\ exception'[1].type = "EOFError")

\* The k-th key in code-point order among the initialized keys.
IsKthKey(x, k) ==
    /\ x \in DOMAIN initialized_models
    /\ Cardinality({y \in DOMAIN initialized_models : KeyLess(y, x)}) = k - 1

-----------------------------------------------------------------------------
\* The question prompt.

\* Nothing but whitespace is typed before the sentinel or the end of input.
RECURSIVE WhitespaceOnly(_)
WhitespaceOnly(console) ==
    \/ console = <<>>
    \/ Lower(Strip(Head(console))) = Sentinel
    \/ /\ \A i \in DOMAIN Head(console) : Head(console)[i] \in Whitespace
       /\ WhitespaceOnly(Tail(console))

\* C11: at the question prompt an empty or whitespace-only question re-prompts:
\* still AwaitingQuestion, no invocation, history, selected model and agent as
\* they were, no post-answer menu; a non-empty question moves to Answering.
C11_EmptyQuestionReprompts ==
    [][pc = "ask" =>
          /\ \A c \in QuestionConsoles :
                 WhitespaceOnly(c) <=> (get_multiline_input(c) = <<>>)
          /\ IF question' = <<>>
             THEN /\ AwaitingQuestion' /\ ~PostAnswerMenu' /\ ~Answering'
                  /\ UNCHANGED <<invocations, last_invocation, chat_history,
                                 selected_key, agent_executor, summary_answer,
                                 user_action, exception, exit_code>>
             ELSE /\ Answering'
                  /\ UNCHANGED <<invocations, chat_history, selected_key,
                                 agent_executor>>]_vars

\* An empty question typed as a follow-up to an answered one.
C11_Witness ==
    /\ pc = "ask"
    /\ question = <<>>
    /\ invocations = 1
    /\ user_action = <<"1">>
    /\ chat_history[1] # <<>>

-----------------------------------------------------------------------------
\* The invocation.

ErrorAnswerPrefix == <<"An error occurred while running the agent: ">>

\* What an invocation can fail with, as str(e).
InvocationFailures == AgentFailures \cup {<<"'output'">>}

\* C12: every step out of Answering ends in PostAnswerMenu with the same model
\* and agent and with no exception pending; when the invocation failed, the
\* answer shown is the error text and the history is as it was.
C12_InvocationFailureIsAnswer ==
    [][Answering =>
          /\ PostAnswerMenu'
          /\ selected_key' = selected_key /\ selected_key # NoneVal
          /\ agent_executor' = agent_executor
          /\ exception' = <<>> /\ exit_code' = <<>>
          /\ \/ /\ summary_answer' \in AgentOutputs
                /\ chat_history' # chat_history
             \/ /\ \E e \in InvocationFailures :
                       summary_answer' = ErrorAnswerPrefix \o e
                /\ chat_history' = chat_history]_vars

\* A raised failure shown as the answer, the model still selected.
C12_Witness ==
    /\ PostAnswerMenu
    /\ \E e \in AgentFailures : summary_answer = ErrorAnswerPrefix \o e
    /\ selected_key \in DOMAIN initialized_models
    /\ exception = <<>>

-----------------------------------------------------------------------------
\* The end of the process.

\* The process ended on sys.exit(0) after "0" at the model prompt or "4" at
\* the post-answer menu.
ExplicitUserExit ==
    /\ exception = <<SystemExit(0)>>
    /\ \/ (IntParses(choice) /\ IntValue(choice) = 0 /\ selected_key = NoneVal)
       \/ user_action = <<"4">>

\* C13: with at least one model initialized, a run whose console does not end
\* terminates only through an explicit user exit: no failure raised after the
\* selection, the building of the agent included, ends the process.
C13_OnlyExplicitExit ==
    (/\ Terminated
     /\ initialized_models # EmptyDict
     /\ exception # <<>>
     /\ exception[1].type # "EOFError")
        => ExplicitUserExit

-----------------------------------------------------------------------------
\* The post-answer menu.

\* A line was read at the post-answer menu in this step.
ReadAtPostMenu ==
    /\ PostAnswerMenu
    /\ ~(pc' = "unwind" /\ exception'[1].type = "EOFError")

\* C14: at the post-answer menu "1" and "2" go back to the question prompt
\* with the same model and agent, "3" goes back to SelectingModel, "4" leaves
\* through sys.exit(0) and the process ends with exit code 0, and any other
\* line shows the menu again with the selected model and the history unchanged.
C14_PostMenuTransitions ==
    /\ [][ReadAtPostMenu =>
            CASE user_action' \in {<<"1">>, <<"2">>} ->
                     /\ pc' = "ask" /\ AwaitingQuestion'
                     /\ UNCHANGED <<selected_key, agent_executor>>
              [] user_action' = <<"3">> -> SelectingModel'
              [] user_action' = <<"4">> ->
                     /\ pc' = "unwind" /\ exception' = <<SystemExit(0)>>
              [] OTHER ->
                     /\ PostAnswerMenu'
                     /\ UNCHANGED <<selected_key, chat_history, agent_executor,
                                    invocations, last_invocation, summary_answer>>]_vars
    /\ [][(pc = "unwind" /\ exception = <<SystemExit(0)>> /\ user_action = <<"4">>) =>
            (Terminated' /\ exit_code' = <<0>>)]_vars

\* "4" after a second answer: the process has ended with exit code 0.
C14_Witness ==
    /\ Terminated
    /\ user_action = <<"4">>
    /\ exception = <<SystemExit(0)>>
    /\ exit_code = <<0>>
    /\ invocations = 2


\* The history handed to the agent by the last invocation.
HistoryPassed == last_invocation[1].chat_history

\* C15: after "new topic" the history is empty up to and at the next
\* invocation, which receives an empty prior context; "continue" leaves the
\* history as the answer left it, and that history is what the next invocation
\* receives.
C15_NewTopicClearsHistory ==
    /\ []((pc \in {"ask", "invoke"} /\ user_action = <<"2">>) => chat_history = << <<>> >>)
    /\ []((PostAnswerMenu /\ user_action = <<"2">>) => HistoryPassed = <<>>)
    /\ [][(ReadAtPostMenu /\ user_action' = <<"2">>) => chat_history' = << <<>> >>]_vars
    /\ [][(ReadAtPostMenu /\ user_action' = <<"1">>) => chat_history' = chat_history]_vars
    /\ [][(pc = "ask" /\ user_action \in {<<"1">>, <<"2">>}) =>
              chat_history' = chat_history]_vars
    /\ [][Answering => last_invocation'[1].chat_history = chat_history[1]]_vars

\* A question asked after "new topic", the answer before it having been added
\* to the history: the invocation about to happen gets an empty history.
C15_Witness ==
    /\ Answering
    /\ user_action = <<"2">>
    /\ summary_answer \in AgentOutputs
    /\ invocations = 1
    /\ chat_history = << <<>> >>


\* C16: a session started after "change model" starts with an empty history,
\* whichever model is selected: the history is empty from the building of the
\* agent up to the first invocation of the new session, and that invocation
\* receives an empty history whatever was asked before.
C16_ModelChangeDiscardsHistory ==
    /\ []((pc \in {"ask", "invoke"} /\ user_action = <<"3">>) => chat_history = << <<>> >>)
    /\ []((PostAnswerMenu /\ user_action = <<"3">>) => HistoryPassed = <<>>)
    /\ [][(pc = "create_agent" /\ pc' = "ask") =>
              /\ chat_history' = << <<>> >>
              /\ agent_executor' = <<[llm |-> initialized_models[selected_key]]>>]_vars

\* The first question of a session started after "change model", the session
\* before it having ended on an answer that was added to its history.
C16_Witness ==
    /\ Answering
    /\ user_action = <<"3">>
    /\ summary_answer \in AgentOutputs
    /\ invocations = 1
    /\ chat_history = << <<>> >>
    /\ selected_key \in DOMAIN initialized_models

-----------------------------------------------------------------------------
\* The xai class.

\* C17: when CustomGrokChatModel could not be imported, initialize_models
\* returns with every xai model only in the failure map, none constructed, the
\* reason naming the unavailable class (or the missing argument name, which is
\* looked at first) whether or not the xai credential is present; every model
\* of another provider succeeds exactly when nothing of its own is wrong.
C17_GrokClassUnavailable ==
    (Returned /\ CustomGrokChatModel = NoneVal) =>
        /\ exception = <<>>
        /\ \A d \in DefsOf("xai") :
               /\ OnlyFailed(d)
               /\ CallsFor(d) = {}
               /\ initialization_errors[d.key] =
                      IF ArgNamePresent("xai")
                      THEN <<"CustomGrokChatModel class not available (import failed).">>
                      ELSE <<"Provider '", "xai", "' not configured in API_KEY_ARG_NAMES.">>
        /\ \A q \in Providers \ {"xai"} : \A e \in DefsOf(q) :
               /\ (e.key \in Successes) <=>
                      (Constructible(q, e) /\ e.model_name \notin raising)
               /\ (e.key \in Successes) # (e.key \in Failures)
               /\ Cardinality(CallsFor(e)) = IF Constructible(q, e) THEN 1 ELSE 0

\* The class is unavailable and the xai credential is missing too; the other
\* providers initialized their models.
C17_Witness ==
    /\ Returned
    /\ CustomGrokChatModel = NoneVal
    /\ ~CredentialPresent("xai") /\ ArgNamePresent("xai")
    /\ \A d \in DefsOf("xai") : d.key \in Failures
    /\ \A q \in Providers \ {"xai"} : \A e \in DefsOf(q) : e.key \in Successes

-----------------------------------------------------------------------------
\* models/custom_models.py: CustomGrokChatModel._generate

\* lines 27-31: the fields of the instance initialize_models builds.
GrokSelf ==
    [api_key |-> SecretOf("xai"),
     model |-> "grok-3-beta",
     api_endpoint |-> "https://api.x.ai/v1/chat/completions",
     temperature |-> "0.7"]

SystemMessage(content) == [type |-> "system", content |-> content]
AIMessage(content) == [type |-> "ai", content |-> content]

\* The message lists _generate is called with; the last three hold messages
\* of another class and objects without content.
GrokMessageLists ==
    {<<>>,
     <<HumanMessage(<<"hi">>)>>,
     <<SystemMessage(<<"be brief">>), HumanMessage(<<"hi">>)>>,
     <<HumanMessage(<<"hi">>), AIMessage(<<"hello">>), HumanMessage(<<"more">>)>>,
     <<[type |-> "tool", content |-> <<"[]">>]>>,
     <<[type |-> "none"]>>,
     <<SystemMessage(<<"be brief">>), [type |-> "none"],
       [type |-> "tool", content |-> <<"[]">>], HumanMessage(<<"hi">>)>>}

GrokStops == {<<>>, << <<"END">> >>}

\* An isinstance chain that tags an AI message like a human one.
RoleOf_AIAsUser(msg) ==
    CASE msg.type = "system" -> "system"
      [] msg.type = "human" -> "user"
      [] msg.type = "ai" -> "user"
      [] OTHER -> NoneVal

\* lines 69-75: the isinstance chain.
RoleOf(msg) ==
    CASE msg.type = "system" -> "system"
      [] msg.type = "human" -> "user"
      [] msg.type = "ai" -> "assistant"
      [] OTHER -> NoneVal

\* lines 67-82
RECURSIVE formatted_messages(_)
formatted_messages(msgs) ==
    IF msgs = <<>> THEN <<>>
    ELSE LET msg == Head(msgs)
             role == RoleOf(msg)
         IN  (IF role # NoneVal /\ "content" \in DOMAIN msg
              THEN <<[role |-> role, content |-> msg.content]>>
              ELSE IF "content" \in DOMAIN msg
              THEN <<[role |-> "user", content |-> msg.content]>>
              ELSE <<>>)
             \o formatted_messages(Tail(msgs))

\* JSON documents a server may send.
CompletionDoc ==
    [choices |-> <<[message |-> [role |-> "assistant", content |-> <<"an answer">>],
                    finish_reason |-> "stop"]>>,
     usage |-> "usage"]
NoContentDoc == [choices |-> <<[message |-> [role |-> "assistant"], finish_reason |-> "stop"]>>]
EmptyChoicesDoc == [choices |-> <<>>]
ErrorObjectDoc == [error |-> [message |-> <<"model overloaded">>]]
ErrorStringDoc == [error |-> PyStr(<<"model not found">>), code |-> "not_found"]

\* Response bodies: the text, and what json.loads makes of it (<<>>: it raises).
GrokBodies ==
    {[text |-> <<"<html>">>, json |-> <<>>],
     [text |-> <<"{completion}">>, json |-> <<CompletionDoc>>],
     [text |-> <<"{no content}">>, json |-> <<NoContentDoc>>],
     [text |-> <<"{no choices}">>, json |-> <<EmptyChoicesDoc>>],
     [text |-> <<"{error object}">>, json |-> <<ErrorObjectDoc>>],
     [text |-> <<"{error string}">>, json |-> <<ErrorStringDoc>>]}

GrokStatusCodes == {200, 201, 304, 401, 404, 500}

\* requests.Response.raise_for_status raises for these and no others.
IsHTTPError(status_code) == 400 <= status_code /\ status_code < 600

RaisedFrom(type, message, cause) == [type |-> type, arg |-> message, cause |-> cause]

grokFrame == <<envVars, loaderVars, init_errors, consoleVars, sessionVars, stdout,
               exit_code, messages, stop>>

\* lines 62-85: no message can be sent.
NoValidMessages ==
    /\ pc = "generate"
    /\ formatted_messages(messages) = <<>>
    /\ exception' = <<Raised("ValueError", <<"Cannot send request with no valid messages.">>)>>
    /\ pc' = "generate_raised"
    /\ UNCHANGED <<grokFrame, payload, response, result, chat_result>>

\* lines 62-97: the request body.
BuildPayload ==
    /\ pc = "generate"
    /\ formatted_messages(messages) # <<>>
    /\ payload' =
           <<(IF stop # <<>> /\ stop[1] # <<>> THEN [stop |-> stop[1]] ELSE <<>>)
                 @@ [model |-> GrokSelf.model,
                     messages |-> formatted_messages(messages),
                     temperature |-> GrokSelf.temperature]>>
    /\ pc' = "post"
    /\ UNCHANGED <<grokFrame, response, result, chat_result, exception>>

\* lines 100-105, 108-109: requests.post times out.
PostTimeout ==
    /\ pc = "post"
    /\ exception' =
           <<RaisedFrom("ConnectionError",
                        <<"Timeout connecting to Grok API at ", GrokSelf.api_endpoint,
                          ": ", "Read timed out.">>,
                        "requests.exceptions.Timeout")>>
    /\ pc' = "generate_raised"
    /\ UNCHANGED <<grokFrame, payload, response, result, chat_result>>

\* lines 100-105, 110-115: the connection fails.
PostConnectionError ==
    /\ pc = "post"
    /\ \E e \in {<<"SSL", ": certificate verify failed">>, <<"Connection refused">>} :
           exception' =
               <<RaisedFrom("ConnectionError",
                            (IF \E i \in DOMAIN e : e[i] = "SSL"
                             THEN <<"SSL Error connecting to Grok API at ",
                                    GrokSelf.api_endpoint, ". Original error: ">>
                             ELSE <<"Network connection error to Grok API at ",
                                    GrokSelf.api_endpoint, ": ">>) \o e,
                            "requests.exceptions.ConnectionError")>>
    /\ pc' = "generate_raised"
    /\ UNCHANGED <<grokFrame, payload, response, result, chat_result>>

\* lines 100-105, 130-131: requests.post raises anything else.
PostOtherError ==
    /\ pc = "post"
    /\ exception' =
           <<RaisedFrom("Exception",
                        <<"An unexpected error occurred during Grok API call: ",
                          "Exceeded 30 redirects.">>,
                        "requests.exceptions.TooManyRedirects")>>
    /\ pc' = "generate_raised"
    /\ UNCHANGED <<grokFrame, payload, response, result, chat_result>>

\* lines 100-105: the server answers.
PostResponds ==
    /\ pc = "post"
    /\ \E status_code \in GrokStatusCodes : \E body \in GrokBodies :
           response' = <<[status_code |-> status_code, body |-> body]>>
    /\ pc' = "raise_for_status"
    /\ UNCHANGED <<grokFrame, payload, result, chat_result, exception>>

\* lines 106, 116-127: raise_for_status raises HTTPError; the handler reads the
\* detail from the body.  error_body.get("error", {}) that is a str has no
\* .get: the handler itself raises AttributeError.
HTTPErrorHandler ==
    /\ pc = "raise_for_status"
    /\ IsHTTPError(response[1].status_code)
    /\ LET status_code == response[1].status_code
           body == response[1].body
           error_body == body.json
           error == IF error_body # <<>> /\ "error" \in DOMAIN error_body[1]
                    THEN <<error_body[1].error>> ELSE <<>>
       IN  IF error # <<>> /\ "str" \in DOMAIN error[1]
           THEN exception' =
                    <<RaisedFrom("AttributeError",
                                 <<"'str' object has no attribute 'get'">>,
                                 "requests.exceptions.HTTPError")>>
           ELSE LET error_detail ==
                        IF error # <<>> /\ "message" \in DOMAIN error[1]
                        THEN error[1].message ELSE body.text
                IN  exception' =
                        <<IF status_code = 401
                          THEN RaisedFrom("ValueError",
                                          <<"[Grok API Auth Error 401] Invalid API key? Detail: ">>
                                              \o error_detail,
                                          "requests.exceptions.HTTPError")
                          ELSE RaisedFrom("Exception",
                                          <<"[Grok API HTTP Error ", status_code, "] Detail: ">>
                                              \o error_detail,
                                          "requests.exceptions.HTTPError")>>
    /\ pc' = "generate_raised"
    /\ UNCHANGED <<grokFrame, payload, response, result, chat_result>>

\* line 106: raise_for_status returns.
RaiseForStatusReturns ==
    /\ pc = "raise_for_status"
    /\ ~IsHTTPError(response[1].status_code)
    /\ pc' = "json"
    /\ UNCHANGED <<grokFrame, payload, response, result, chat_result, exception>>

\* lines 107, 128-129: the body is not JSON.
JSONDecodeErrorHandler ==
    /\ pc = "json"
    /\ response[1].body.json = <<>>
    /\ exception' =
           <<RaisedFrom("ValueError",
                        <<"Failed to decode JSON response from Grok API. Response text: ",
                          "N/A">>,
                        "requests.exceptions.JSONDecodeError")>>
    /\ pc' = "generate_raised"
    /\ UNCHANGED <<grokFrame, payload, response, result, chat_result>>

\* line 107
ResponseJson ==
    /\ pc = "json"
    /\ response[1].body.json # <<>>
    /\ result' = response[1].body.json
    /\ pc' = "parse"
    /\ UNCHANGED <<grokFrame, payload, response, chat_result, exception>>

\* lines 134-136: result["choices"][0]["message"] can be read.
HasChoiceMessage(doc) ==
    /\ "choices" \in DOMAIN doc
    /\ doc.choices # <<>>
    /\ "message" \in DOMAIN doc.choices[1]

\* lines 133-136, 151-152: the document has no first choice with a message.
ParseUnexpectedFormat ==
    /\ pc = "parse"
    /\ ~HasChoiceMessage(result[1])
    /\ exception' =
           <<RaisedFrom("ValueError",
                        <<"Failed to parse Grok API response. Unexpected format. Received: ",
                          result[1], ". Error: ",
                          IF "choices" \in DOMAIN result[1]
                          THEN "list index out of range" ELSE "'choices'">>,
                        IF "choices" \in DOMAIN result[1] THEN "IndexError" ELSE "KeyError")>>
    /\ pc' = "generate_raised"
    /\ UNCHANGED <<grokFrame, payload, response, result, chat_result>>

\* lines 136-138: the message has no content; this ValueError is not one of
\* the exceptions line 151 catches.
ParseMissingContent ==
    /\ pc = "parse"
    /\ HasChoiceMessage(result[1])
    /\ "content" \notin DOMAIN result[1].choices[1].message
    /\ exception' =
           <<Raised("ValueError", <<"API response choice message is missing 'content'.">>)>>
    /\ pc' = "generate_raised"
    /\ UNCHANGED <<grokFrame, payload, response, result, chat_result>>

\* lines 133-150
ReturnChatResult ==
    /\ pc = "parse"
    /\ HasChoiceMessage(result[1])
    /\ "content" \in DOMAIN result[1].choices[1].message
    /\ chat_result' =
           <<[generations |->
                  <<[message |-> AIMessage(result[1].choices[1].message.content),
                     generation_info |->
                         (IF "usage" \in DOMAIN result[1]
                          THEN [usage |-> result[1].usage] ELSE <<>>)
                             @@ [finish_reason |->
                                     DictGet(result[1].choices[1], "finish_reason")]]>>,
              llm_output |-> DictGet(result[1], "usage")]>>
    /\ pc' = "generated"
    /\ UNCHANGED <<grokFrame, payload, response, result, exception>>

\* _generate called on an instance, with nothing else of the program running.
GrokInit ==
    /\ EnvInit({})
    /\ LoaderIdle
    /\ MainIdle
    /\ messages \in GrokMessageLists
    /\ stop \in GrokStops
    /\ payload = <<>> /\ response = <<>> /\ result = <<>> /\ chat_result = <<>>
    /\ pc = "generate"

GrokNext ==
    \/ NoValidMessages
    \/ BuildPayload
    \/ PostTimeout
    \/ PostConnectionError
    \/ PostOtherError
    \/ PostResponds
    \/ HTTPErrorHandler
    \/ RaiseForStatusReturns
    \/ JSONDecodeErrorHandler
    \/ ResponseJson
    \/ ParseUnexpectedFormat
    \/ ParseMissingContent
    \/ ReturnChatResult

GrokSpec == GrokInit /\ [][GrokNext]_vars


\* _generate has returned or raised.
GenerateEnded == pc \in {"generated", "generate_raised"}
GenerateRaised == pc = "generate_raised" /\ exception # <<>> /\ chat_result = <<>>

\* What the message of a failure says went wrong.
Diagnosis(e) ==
    CASE Head(e.arg) = "Timeout connecting to Grok API at " -> "timeout"
      [] Head(e.arg) \in {"[Grok API Auth Error 401] Invalid API key? Detail: ",
                          "[Grok API HTTP Error "} -> "http status"
      [] Head(e.arg) = "Failed to decode JSON response from Grok API. Response text: " ->
             "malformed JSON"
      [] OTHER -> "other"

\* C18: a call that got a non-2xx response, a call that got a 2xx response
\* whose body is not JSON, and a call that timed out each end by raising, with
\* a message that tells which of the three happened; none returns a result.
C18_DistinctFailures ==
    GenerateEnded =>
        /\ (response # <<>> /\ response[1].status_code \notin 200..299) =>
               (GenerateRaised /\ Diagnosis(exception[1]) = "http status")
        /\ (/\ response # <<>>
            /\ response[1].status_code \in 200..299
            /\ response[1].body.json = <<>>) =>
               (GenerateRaised /\ Diagnosis(exception[1]) = "malformed JSON")
        /\ (/\ exception # <<>>
            /\ "cause" \in DOMAIN exception[1]
            /\ exception[1].cause = "requests.exceptions.Timeout") =>
               (GenerateRaised /\ Diagnosis(exception[1]) = "timeout")

-----------------------------------------------------------------------------
\* The conversation history.

\* The text an entry of the history holds.
EntryText(e) == IF "content" \in DOMAIN e THEN e.content ELSE e.str

\* C19: every invocation is handed the history as it stands; an answered
\* question appends exactly two entries to it, the question then the answer; a
\* failed invocation and the question prompt (an empty question included)
\* leave it as it is; and nothing else changes it but the start of a session
\* and "new topic", which empty it.  So the history handed over is the
\* sequence of the questions answered since the later of the two, in order.
C19_HistoryIsAnsweredPairs ==
    /\ [][Answering =>
            /\ last_invocation' = <<[input |-> question, chat_history |-> chat_history[1]]>>
            /\ invocations' = invocations + 1
            /\ IF summary_answer' \in AgentOutputs
               THEN LET old == chat_history[1]
                        new == chat_history'[1]
                    IN  /\ Len(new) = Len(old) + 2
                        /\ SubSeq(new, 1, Len(old)) = old
                        /\ EntryText(new[Len(old) + 1]) = question
                        /\ EntryText(new[Len(old) + 2]) = summary_answer'
               ELSE chat_history' = chat_history]_vars
    /\ [][pc = "ask" => UNCHANGED <<chat_history, invocations, last_invocation>>]_vars
    /\ [][chat_history' # chat_history =>
            \/ Answering
            \/ pc = "create_agent" /\ chat_history' = << <<>> >>
            \/ PostAnswerMenu /\ user_action' = <<"2">> /\ chat_history' = << <<>> >>]_vars

\* Two questions answered in a row: the second invocation was handed the first
\* pair, and the history now holds both pairs in order.
C19_Witness ==
    /\ PostAnswerMenu
    /\ invocations = 2
    /\ Len(HistoryPassed) = 2
    /\ Len(chat_history[1]) = 4
    /\ SubSeq(chat_history[1], 1, 2) = HistoryPassed
    /\ EntryText(chat_history[1][1]) # EntryText(chat_history[1][3])


\* C20: every entry of the history is a message with a role and a content:
\* the entries come in pairs, a user-role entry then an assistant-role entry.
C20_HistoryEntriesRoleTagged ==
    chat_history # <<>> =>
        \A i \in DOMAIN chat_history[1] :
            LET e == chat_history[1][i]
            IN  /\ {"type", "content"} \subseteq DOMAIN e
                /\ e.type = IF i % 2 = 1 THEN "human" ELSE "ai"


-----------------------------------------------------------------------------
\* C21: an invocation that returns a response without "output" shows the text
\* "Agent did not return an answer." and goes to the post-answer menu.  The
\* invocations end in three ways: an output, an exception, no output; so at
\* the menu the answer is an agent's output, the error text of a raised
\* exception, or that default text.
C21_NoOutputShowsDefaultAnswer ==
    PostAnswerMenu =>
        \/ summary_answer \in AgentOutputs
        \/ \E e \in AgentFailures :
               summary_answer = <<"An error occurred while running the agent: ">> \o e
        \/ summary_answer = <<"Agent did not return an answer.">>


-----------------------------------------------------------------------------
\* The reason recorded for definition d of provider p when its class or its
\* identifier-argument name is missing.
MissingPartReason(p, d) ==
    IF p = "xai" /\ CustomGrokChatModel = NoneVal
    THEN <<"CustomGrokChatModel class not available (import failed).">>
    ELSE IF d.class = NoneVal
    THEN IF p = "xai"
         THEN <<"Class definition missing for ", d.key,
                " (CustomGrokChatModel likely failed to import).">>
         ELSE <<"Class definition missing for ", d.key, ".">>
    ELSE <<"Configuration error: 'model_id_key' missing for ", d.key,
           " in MODEL_DEFINITIONS.">>

\* C22: in a provider with credential and argument name, a definition whose
\* class or identifier-argument name is missing is only in the failure map,
\* with the reason that names the missing part, and is never constructed; every
\* other definition of the provider has an outcome, and the constructible
\* ones among them are constructed once.
C22_MissingClassOrIdKey ==
    Returned =>
        \A p \in Providers : (CredentialPresent(p) /\ ArgNamePresent(p)) =>
            \A d \in DefsOf(p) : (d.class = NoneVal \/ ~Truthy(d.model_id_key)) =>
                /\ OnlyFailed(d)
                /\ initialization_errors[d.key] = MissingPartReason(p, d)
                /\ CallsFor(d) = {}
                /\ \A e \in DefsOf(p) \ {d} :
                       /\ e.key \in Successes \cup Failures
                       /\ Constructible(p, e) => Cardinality(CallsFor(e)) = 1

\* A definition without its class, followed in its provider's list by one
\* that was constructed.
C22_Witness ==
    /\ Returned
    /\ \E p \in Providers : \E i, j \in DOMAIN MODEL_DEFINITIONS[p] :
           /\ i < j
           /\ CredentialPresent(p) /\ ArgNamePresent(p)
           /\ MODEL_DEFINITIONS[p][i].class = NoneVal
           /\ MODEL_DEFINITIONS[p][i].key \in Failures
           /\ CallsFor(MODEL_DEFINITIONS[p][i]) = {}
           /\ MODEL_DEFINITIONS[p][j].key \in Successes


-----------------------------------------------------------------------------
\* C23: initialize_models never changes the table: every step leaves every
\* field of every definition as it was; no definition's args holds a
\* credential, under the credential's argument name or any other; the
\* credential reaches a constructor only in the keywords of its call.
C23_TableUnchanged ==
    /\ [][MODEL_DEFINITIONS' = MODEL_DEFINITIONS]_vars
    /\ [](\A p \in Providers : \A d \in DefsOf(p) :
              /\ d.args = [temperature |-> d.args.temperature]
              /\ ArgNamePresent(p) => API_KEY_ARG_NAMES[p] \notin DOMAIN d.args
              /\ \A n \in DOMAIN d.args : \A q \in Providers :
                     CredentialPresent(q) => d.args[n] # API_KEYS[q])
    /\ [](\A i \in DOMAIN ctor_calls :
              \E p \in Providers :
                  /\ ArgNamePresent(p)
                  /\ API_KEY_ARG_NAMES[p] \in DOMAIN ctor_calls[i].kwargs
                  /\ ctor_calls[i].kwargs[API_KEY_ARG_NAMES[p]] = API_KEYS[p])

\* The resolver has returned after constructing a model with its credential,
\* and that model's definition still has only its own args.
C23_Witness ==
    /\ Returned
    /\ \E p \in Providers : \E d \in DefsOf(p) :
           /\ d.key \in Successes
           /\ initialized_models[d.key].kwargs[API_KEY_ARG_NAMES[p]] = API_KEYS[p]
           /\ DOMAIN d.args = {"temperature"}


-----------------------------------------------------------------------------
\* The numbered entries of the menu on the screen, in the order printed.
MenuItems == SelectSeq(menu, LAMBDA l : l.line = "item")

\* C24: the selectable models are fixed after startup.  No step changes the
\* registry of initialized models, and once the session has started no step
\* changes the list of keys; whenever the session asks for a model, the menu
\* offers exactly the registry's keys, in ascending code-point order, numbered
\* from 1; and the model an agent is built on is the registry's instance for
\* the selected key.
C24_SelectableModelsFixed ==
    /\ [][initialized_models' = initialized_models]_vars
    /\ [][pc # "check_models" => available_model_keys' = available_model_keys]_vars
    /\ [](SelectingModel =>
              /\ {available_model_keys[k] : k \in DOMAIN available_model_keys}
                     = DOMAIN initialized_models
              /\ \A k \in 1..(Len(available_model_keys) - 1) :
                     KeyLess(available_model_keys[k], available_model_keys[k + 1])
              /\ Len(MenuItems) = Len(available_model_keys)
              /\ \A k \in DOMAIN MenuItems :
                     /\ MenuItems[k].number = k
                     /\ MenuItems[k].key = available_model_keys[k])
    /\ []((pc \in {"ask", "invoke", "post_menu"}) =>
              /\ selected_key \in DOMAIN initialized_models
              /\ agent_executor = <<[llm |-> initialized_models[selected_key]]>>)

\* Back at the model prompt by "change model", after two invocations, with at
\* least two models on the menu.
C24_Witness ==
    /\ SelectingModel
    /\ user_action = <<"3">>
    /\ invocations = 2
    /\ Len(available_model_keys) >= 2
    /\ Len(MenuItems) = Len(available_model_keys)


-----------------------------------------------------------------------------
\* The input messages that have a content, in their order.
MessagesWithContent == SelectSeq(messages, LAMBDA m : "content" \in DOMAIN m)

\* C25: the request _generate sends holds one entry per input message with a
\* content, in the order of the input, each with that message's content, a
\* system message tagged "system", a human one "user", an AI one "assistant";
\* and when no input message has a content, the call fails with the ValueError
\* "Cannot send request with no valid messages." and no request is built or
\* sent.
C25_MessagesSentInOrder ==
    /\ payload # <<>> =>
           /\ Len(payload[1].messages) = Len(MessagesWithContent)
           /\ \A i \in DOMAIN MessagesWithContent :
                  LET m == MessagesWithContent[i]
                      entry == payload[1].messages[i]
                  IN  /\ entry.content = m.content
                      /\ m.type = "system" => entry.role = "system"
                      /\ m.type = "human" => entry.role = "user"
                      /\ m.type = "ai" => entry.role = "assistant"
    /\ response # <<>> => payload # <<>>
    /\ (MessagesWithContent # <<>> /\ pc # "generate") => payload # <<>>
    /\ MessagesWithContent = <<>> =>
           /\ payload = <<>> /\ response = <<>> /\ chat_result = <<>>
           /\ pc \in {"generate", "generate_raised"}
           /\ pc = "generate_raised" =>
                  exception = <<[type |-> "ValueError",
                                 arg |-> <<"Cannot send request with no valid messages.">>]>>

\* A conversation of three messages was sent as user, assistant, user and the
\* server's answer was returned.
C25_Witness ==
    /\ pc = "generated"
    /\ Len(messages) = 3
    /\ payload # <<>>
    /\ [i \in 1..3 |-> payload[1].messages[i].role] = <<"user", "assistant", "user">>
    /\ payload[1].messages[3].content = <<"more">>

=============================================================================
